---- MODULE Spec2Model ----
(***************************************************************************)
(* Model of frigate-tools: the calendar filter and recording locator of    *)
(* file_list.py, the adaptive timelapse pipeline of timelapse.py, the      *)
(* "timelapse create" command of cli.py, the clip selection of clip.py and *)
(* create_grid_video of grid.py.                                           *)
(*                                                                         *)
(* Instants are naive datetimes of December 2025 (1 Dec 2025 is a Monday), *)
(* written [day, hour, minute, second].  Directory and file names are      *)
(* kept as digit strings so that int() and sorted() act on the names.      *)
(***************************************************************************)
EXTENDS Integers, Sequences, FiniteSets, TLC

VARIABLES
    cal_op,     \* calendar call that was made: "idle", "contains", "should_skip"
    cal_in,     \* arguments of that call
    cal_out,    \* its return value
    tree,       \* recording tree: the set of segment files on disk
    fl_tz,      \* host time zone of the process running the locator
    fl_pc,      \* "walk" while the tree is being written, "done" after the call
    fl_in,      \* arguments of find_recording_files
    fl_out,     \* its return value, a sequence of tree entries
    recordings, \* does the directory <instance>/recordings exist?
    tl_pc,      \* where create_timelapse stands: the next external process to run
    tl_in,      \* arguments of create_timelapse
    tl_sel,     \* what the selector computed: sample_durations, speedup, use_frames
    tl_hw,      \* hwaccel argument of the encode call in progress
    tl_work,    \* locals of the running strategy
    tl_ret,     \* "none" while running, then "True", "False" or the exception raised
    disk,       \* temporary artifacts and output file present on disk
    created,    \* every artifact this run has created so far (history)
    procs,      \* external processes spawned so far, in order (history)
    ran,        \* strategies whose function was entered (history)
    ex_pc,      \* extract_keyframes_parallel: "idle", "running", "returned"
    ex_in,      \* its arguments: number of input files, extract_all
    ex_completed,   \* worker results in the order as_completed() yielded them
    ex_all_frames,  \* all_frames, in the order the results were appended
    ex_errors,  \* errors counter
    ex_out,     \* the sorted list it returned
    ex_ret,     \* what the caller does with it: "none", "False", "continue"
    grid_pc,    \* create_grid_video: "idle", "manifests", "encode", "done"
    grid_in,    \* camera_files: per camera, in dict order, its number of files
    grid_concat_files,  \* concat_files, the manifests written so far
    grid_ret,   \* "none" while running, then "True" or "False"
    cli_pc,     \* timelapse create command: "idle", "hwaccel", "find", "create", "exit"
    cli_in,     \* its command-line options
    cli_work,   \* locals: target_duration, camera_list, hwaccel, file_lists
    hwaccel_cache,  \* _hwaccel_cache of the process
    cli_exit,   \* "none" while running, then the exit code and message
    hw_calls,   \* the get_hwaccel() calls of the process so far (history)
    cc_pc,      \* two concurrent create_timelapse runs: where each stands
    cc_in,      \* for each run: output file stem and strategy
    cc_fs,      \* the files of the shared output and temp directories, with their writer
    cc_touched  \* accesses of a run to a file another run wrote (history)

calVars == <<cal_op, cal_in, cal_out>>
flVars  == <<tree, fl_tz, fl_pc, fl_in, fl_out, recordings>>
tlVars  == <<tl_pc, tl_in, tl_sel, tl_hw, tl_work, tl_ret, disk, created, procs, ran>>
exVars  == <<ex_pc, ex_in, ex_completed, ex_all_frames, ex_errors, ex_out, ex_ret>>
gridVars == <<grid_pc, grid_in, grid_concat_files, grid_ret>>
cliVars == <<cli_pc, cli_in, cli_work, hwaccel_cache, cli_exit, hw_calls>>
runVars == <<cc_pc, cc_in, cc_fs, cc_touched>>
vars    == <<calVars, flVars, tlVars, exVars, gridVars, cliVars, runVars>>

\* the variables of create_timelapse other than the disk and process history
tlCtl   == <<tl_pc, tl_in, tl_sel, tl_hw, tl_work, tl_ret, ran>>

----------------------------------------------------------------------------
(* Bounds *)

MaxRanges == 2      \* longest skip_hours list drawn
MaxTree   == 2      \* most segment files in a recording tree
MaxInputs == 6      \* most input segments given to create_timelapse
KeyframesPerFile == 2   \* key frames ffmpeg finds in one segment
MaxTasks  == 3      \* most files given to extract_keyframes_parallel
MaxCliFiles == 1    \* most files generate_file_lists finds for one camera of a command
MaxCameras == 3     \* most cameras in the mapping given to create_grid_video
MaxGridFiles == 2   \* most files of one camera in that mapping

----------------------------------------------------------------------------
(* datetime *)

Hours == 0..23

DT(d, h, m, s) == [day |-> d, hour |-> h, minute |-> m, second |-> s]

Secs(dt) == ((dt.day * 24 + dt.hour) * 60 + dt.minute) * 60 + dt.second

FromSecs(n) ==
    DT(n \div 86400, (n \div 3600) % 24, (n \div 60) % 60, n % 60)

\* datetime.weekday(): 0 = Monday; 2025-12-01 is a Monday
weekday(dt) == (dt.day - 1) % 7

\* datetime(year, month, day, hour, minute, second) raises ValueError
\* outside these ranges
ValidDateTime(y, mo, d, h, mi, s) ==
    /\ y \in 1..9999
    /\ mo \in 1..12
    /\ d \in 1..(IF mo \in {4, 6, 9, 11} THEN 30
                 ELSE IF mo = 2 THEN (IF y % 4 = 0 /\ (y % 100 # 0 \/ y % 400 = 0)
                                      THEN 29 ELSE 28)
                 ELSE 31)
    /\ h \in 0..23
    /\ mi \in 0..59
    /\ s \in 0..59

----------------------------------------------------------------------------
(* file_list.py: calendar filter *)

HourRange(a, b) == [start |-> a, end |-> b]

HourRange_contains_exclusive_end(self, hour) ==
    IF self.start <= self.end
    THEN self.start <= hour /\ hour < self.end
    ELSE hour >= self.start \/ hour < self.end

HourRange_contains(self, hour) ==
    IF self.start <= self.end
    THEN self.start <= hour /\ hour <= self.end
    ELSE hour >= self.start \/ hour <= self.end

\* host time zone: time.timezone / time.altzone are seconds WEST of UTC;
\* dstFrom is the first day on which localtime() reports tm_isdst > 0
TimeZones ==
    { [name |-> "UTC",                 timezone |-> 0,      altzone |-> 0,      dstFrom |-> 99],
      [name |-> "America/Los_Angeles", timezone |-> 28800,  altzone |-> 25200,  dstFrom |-> 99],
      [name |-> "Australia/Sydney",    timezone |-> -36000, altzone |-> -39600, dstFrom |-> 0] }

utc_to_local(tz, dt) ==
    LET isdst      == dt.day >= tz.dstFrom
        utc_offset == IF isdst THEN 0 - tz.altzone ELSE 0 - tz.timezone
    IN  FromSecs(Secs(dt) + utc_offset)

RECURSIVE AnyRangeContains(_, _, _)
AnyRangeContains(skip_hours, i, hour) ==
    IF i > Len(skip_hours) THEN FALSE
    ELSE IF HourRange_contains(skip_hours[i], hour) THEN TRUE
    ELSE AnyRangeContains(skip_hours, i + 1, hour)

should_skip_timestamp_first_range_only(tz, ts, skip_days, skip_hours) ==
    LET local_ts == utc_to_local(tz, ts)
    IN  IF weekday(local_ts) \in skip_days THEN TRUE
        ELSE Len(skip_hours) > 0 /\ HourRange_contains(skip_hours[1], local_ts.hour)

should_skip_timestamp(tz, ts, skip_days, skip_hours) ==
    LET local_ts == utc_to_local(tz, ts)
    IN  IF weekday(local_ts) \in skip_days THEN TRUE
        ELSE AnyRangeContains(skip_hours, 1, local_ts.hour)

----------------------------------------------------------------------------
(* Inputs of the calendar calls *)

RangePool == { HourRange(16, 8), HourRange(9, 17), HourRange(22, 6) }

SeqsUpTo(S, n) == UNION { [1..k -> S] : k \in 0..n }

SkipHourLists == SeqsUpTo(RangePool, MaxRanges)

SkipDaySets == { {}, {5, 6}, {4} }

CalInstants == { DT(d, h, 0, 0) : d \in {5, 6, 7}, h \in Hours }

CallContains ==
    /\ cal_op = "idle"
    /\ \E a \in Hours, b \in Hours, h \in Hours :
          /\ cal_op' = "contains"
          /\ cal_in' = [start |-> a, end |-> b, hour |-> h]
          /\ cal_out' = HourRange_contains(HourRange(a, b), h)
    /\ UNCHANGED <<flVars, tlVars, exVars, gridVars, cliVars, runVars>>

CallShouldSkip ==
    /\ cal_op = "idle"
    /\ \E tz \in TimeZones, ts \in CalInstants, days \in SkipDaySets,
          ranges \in SkipHourLists :
          /\ cal_op' = "should_skip"
          /\ cal_in' = [tz |-> tz, ts |-> ts, skip_days |-> days, skip_hours |-> ranges]
          /\ cal_out' = should_skip_timestamp(tz, ts, days, ranges)
    /\ UNCHANGED <<flVars, tlVars, exVars, gridVars, cliVars, runVars>>

InitFileListIdle ==
    /\ tree = {}
    /\ fl_tz = CHOOSE z \in TimeZones : z.name = "UTC"
    /\ fl_pc = "off"
    /\ fl_in = [camera |-> "none"]
    /\ fl_out = <<>>
    /\ recordings = FALSE

InitCalendarIdle ==
    /\ cal_op = "off"
    /\ cal_in = [hour |-> 0]
    /\ cal_out = FALSE

InitTimelapseIdle ==
    /\ tl_pc = "off"
    /\ tl_in = [n |-> 0]
    /\ tl_sel = [use_frames |-> FALSE]
    /\ tl_hw = "none"
    /\ tl_work = [depth |-> 0]
    /\ tl_ret = "none"
    /\ disk = {}
    /\ created = {}
    /\ procs = <<>>
    /\ ran = {}

InitExtractIdle ==
    /\ ex_pc = "off"
    /\ ex_in = [m |-> 0]
    /\ ex_completed = <<>>
    /\ ex_all_frames = <<>>
    /\ ex_errors = 0
    /\ ex_out = <<>>
    /\ ex_ret = "none"

InitGridIdle ==
    /\ grid_pc = "off"
    /\ grid_in = <<>>
    /\ grid_concat_files = <<>>
    /\ grid_ret = "none"

InitCliIdle ==
    /\ cli_pc = "off"
    /\ cli_in = [cameras |-> <<>>]
    /\ cli_work = [camera_list |-> <<>>]
    /\ hwaccel_cache = "None"
    /\ cli_exit = "none"
    /\ hw_calls = <<>>

InitRunsIdle ==
    /\ cc_pc = <<>>
    /\ cc_in = <<>>
    /\ cc_fs = {}
    /\ cc_touched = {}

InitCalendar ==
    /\ cal_op = "idle"
    /\ cal_in = [hour |-> 0]
    /\ cal_out = FALSE
    /\ InitFileListIdle
    /\ InitTimelapseIdle
    /\ InitExtractIdle
    /\ InitGridIdle
    /\ InitCliIdle
    /\ InitRunsIdle

NextCalendar == CallContains \/ CallShouldSkip

SpecCalendar == InitCalendar /\ [][NextCalendar]_vars

----------------------------------------------------------------------------
(* Calendar filter properties *)

CalLocal == utc_to_local(cal_in.tz, cal_in.ts)

\* C2: should_skip_timestamp is true exactly when the local weekday of ts is
\* in skip_days or the local hour of ts lies in at least one range of
\* skip_hours; with no days and no ranges it is false for every ts.
Thm_C2_ShouldSkipIsOr ==
    cal_op = "should_skip" =>
        /\ cal_out = ( \/ weekday(CalLocal) \in cal_in.skip_days
                       \/ \E i \in 1..Len(cal_in.skip_hours) :
                            LET r == cal_in.skip_hours[i]
                                h == CalLocal.hour
                            IN  IF r.start <= r.end
                                THEN r.start <= h /\ h <= r.end
                                ELSE h >= r.start \/ h <= r.end )
        /\ (cal_in.skip_days = {} /\ cal_in.skip_hours = <<>> => cal_out = FALSE)

\* a timestamp skipped only because of the second range of the list, in a
\* zone whose local day differs from the UTC day
Wit_C2_SecondRangeOnly ==
    /\ cal_op = "should_skip"
    /\ cal_out = TRUE
    /\ weekday(CalLocal) \notin cal_in.skip_days
    /\ Len(cal_in.skip_hours) = 2
    /\ ~HourRange_contains(cal_in.skip_hours[1], CalLocal.hour)
    /\ CalLocal.day # cal_in.ts.day

Claim_C4_EndExclusive ==
    (cal_op = "contains" /\ cal_in.start # cal_in.end /\ cal_in.hour = cal_in.end)
        => cal_out = FALSE

----------------------------------------------------------------------------
(* Names: a directory or file name is the sequence of its character codes *)

Dot  == 46      \* "."
Dash == 45      \* "-"
Mp4  == <<46, 109, 112, 52>>    \* ".mp4"

IsDigit(c) == c \in 48..57

Space == 32     \* " "
Comma == 44     \* ","

\* str.lower() on ASCII
Lower(s) == [i \in 1..Len(s) |-> IF s[i] \in 65..90 THEN s[i] + 32 ELSE s[i]]

IsSpace(c) == c \in {9, 10, 13, Space}

RECURSIVE LStrip(_)
LStrip(s) == IF Len(s) > 0 /\ IsSpace(s[1]) THEN LStrip(Tail(s)) ELSE s

RECURSIVE RStrip(_)
RStrip(s) ==
    IF Len(s) > 0 /\ IsSpace(s[Len(s)]) THEN RStrip(SubSeq(s, 1, Len(s) - 1)) ELSE s

\* str.strip()
Strip(s) == RStrip(LStrip(s))

\* two-digit zero-padded rendering, as %02d / %H / %d
Str2(n) == <<48 + (n \div 10), 48 + (n % 10)>>

\* int(s) succeeds on a non-empty string of digits
IsInt(s) == Len(s) > 0 /\ \A i \in 1..Len(s) : IsDigit(s[i])

RECURSIVE IntOf(_)
IntOf(s) ==
    IF Len(s) = 0 THEN 0
    ELSE 10 * IntOf(SubSeq(s, 1, Len(s) - 1)) + (s[Len(s)] - 48)

\* str.split(sep)
RECURSIVE Split(_, _)
Split(s, sep) ==
    IF \A i \in 1..Len(s) : s[i] # sep THEN <<s>>
    ELSE LET i == CHOOSE k \in 1..Len(s) :
                      s[k] = sep /\ \A j \in 1..(k - 1) : s[j] # sep
         IN  <<SubSeq(s, 1, i - 1)>> \o Split(SubSeq(s, i + 1, Len(s)), sep)

\* string order of Python's sorted(): lexicographic by character code
RECURSIVE StrLT(_, _)
StrLT(a, b) ==
    IF Len(b) = 0 THEN FALSE
    ELSE IF Len(a) = 0 THEN TRUE
    ELSE IF a[1] # b[1] THEN a[1] < b[1]
    ELSE StrLT(Tail(a), Tail(b))

NameBefore_reversed(a, b) == StrLT(b, a)

\* the comparison sorted() applies to two names
NameBefore(a, b) == StrLT(a, b)

\* sorted(names)
RECURSIVE Sorted(_)
Sorted(S) ==
    IF S = {} THEN <<>>
    ELSE LET m == CHOOSE x \in S : \A y \in S : x = y \/ NameBefore(x, y)
         IN  <<m>> \o Sorted(S \ {m})

\* date.strftime("%Y-%m-%d") for a day of December 2025
strftime_date(day) == <<50, 48, 50, 53, Dash, 49, 50, Dash>> \o Str2(day)

Newline == 10       \* "\n"
Plus == 43          \* "+"
Underscore == 95    \* "_"

\* FILENAME_PATTERN = ^(\d{2})\.(\d{2})\.mp4$ ; "$" matches at the end of
\* the string and also just before a newline that ends the string
FILENAME_PATTERN_match(filename) ==
    LET name == IF Len(filename) = 10 /\ filename[10] = Newline
                THEN SubSeq(filename, 1, 9) ELSE filename
    IN  /\ Len(name) = 9
        /\ IsDigit(name[1]) /\ IsDigit(name[2])
        /\ name[3] = Dot
        /\ IsDigit(name[4]) /\ IsDigit(name[5])
        /\ SubSeq(name, 6, 9) = Mp4

None == [none |-> TRUE]

OverflowError == [raised |-> "OverflowError"]

\* int(s): surrounding whitespace is stripped, one sign is allowed, and
\* single underscores may stand between digits; ok is FALSE where int()
\* raises ValueError
int_literal(s) ==
    LET t      == Strip(s)
        signed == Len(t) > 0 /\ t[1] \in {Plus, Dash}
        body   == IF signed THEN Tail(t) ELSE t
    IN  [ok |-> /\ Len(body) > 0
                /\ \A i \in 1..Len(body) :
                     \/ IsDigit(body[i])
                     \/ /\ body[i] = Underscore
                        /\ i > 1 /\ i < Len(body)
                        /\ IsDigit(body[i - 1]) /\ IsDigit(body[i + 1]),
         neg |-> signed /\ t[1] = Dash,
         digits |-> SelectSeq(body, IsDigit)]

RECURSIVE StripZeros(_)
StripZeros(d) == IF Len(d) > 1 /\ d[1] = 48 THEN StripZeros(Tail(d)) ELSE d

\* 2147483647 and 2147483648: the bounds of the C int that the datetime
\* constructor converts its arguments to
CIntMax == <<50, 49, 52, 55, 52, 56, 51, 54, 52, 55>>
CIntMinMagnitude == <<50, 49, 52, 55, 52, 56, 51, 54, 52, 56>>

\* the value does not fit a C int
ExceedsCInt(n) ==
    LET d     == StripZeros(n.digits)
        limit == IF n.neg THEN CIntMinMagnitude ELSE CIntMax
    IN  Len(d) > 10 \/ (Len(d) = 10 /\ StrLT(limit, d))

IntValue(n) == IF n.neg THEN 0 - IntOf(n.digits) ELSE IntOf(n.digits)

\* parse_file_timestamp: a datetime, or None when the pattern does not
\* match or a ValueError is raised by int(), by the 3-way unpacking or by
\* datetime(); the OverflowError that datetime() raises for an argument
\* beyond a C int is not caught
parse_file_datetime(date_dir, hour_dir, filename) ==
    IF ~FILENAME_PATTERN_match(filename) THEN None
    ELSE LET minute == IntOf(SubSeq(filename, 1, 2))
             second == IntOf(SubSeq(filename, 4, 5))
             parts  == Split(date_dir, Dash)
             ints   == [i \in 1..Len(parts) |-> int_literal(parts[i])]
             hour   == int_literal(hour_dir)
         IN  IF Len(parts) # 3 \/ \E i \in 1..Len(parts) : ~ints[i].ok
             THEN None
             ELSE IF ~hour.ok THEN None
             ELSE IF ExceedsCInt(hour) \/ \E i \in 1..3 : ExceedsCInt(ints[i])
             THEN OverflowError
             ELSE IF ~ValidDateTime(IntValue(ints[1]), IntValue(ints[2]), IntValue(ints[3]),
                                    IntValue(hour), minute, second)
             THEN None
             ELSE [year |-> IntValue(ints[1]), month |-> IntValue(ints[2]),
                   day |-> IntValue(ints[3]), hour |-> IntValue(hour),
                   minute |-> minute, second |-> second]

\* the same call as the locator sees it: the model's recordings all lie in
\* December 2025, and its instants carry the day of that month
parse_file_timestamp(date_dir, hour_dir, filename) ==
    LET dt == parse_file_datetime(date_dir, hour_dir, filename)
    IN  IF dt = None \/ dt = OverflowError THEN dt
        ELSE DT(dt.day, dt.hour, dt.minute, dt.second)

----------------------------------------------------------------------------
(* file_list.py: recording locator *)

\* a segment file recordings/<date>/<hour>/<cam>/<file>
Entry(date, hour, cam, file) == [date |-> date, hour |-> hour, cam |-> cam, file |-> file]

EndsWithMp4(name) == Len(name) >= 4 /\ SubSeq(name, Len(name) - 3, Len(name)) = Mp4

\* an entry of a date directory that is a regular file, not a directory
NotADir == "."

\* hour_path.is_dir()
is_dir(t, date_dir, hour_name) ==
    \E e \in t : e.date = date_dir /\ e.hour = hour_name /\ e.cam # NotADir

\* the inner loop over sorted(camera_path.glob("*.mp4"))
RECURSIVE WalkFiles(_, _, _, _, _, _, _)
WalkFiles(t, tz, a, date_dir, hour_name, names, i) ==
    IF i > Len(names) THEN <<>>
    ELSE LET ts   == parse_file_timestamp(date_dir, hour_name, names[i])
             rest == WalkFiles(t, tz, a, date_dir, hour_name, names, i + 1)
         IN  IF ts = None THEN rest
             ELSE IF Secs(ts) < Secs(a.start) \/ Secs(ts) >= Secs(a.end) THEN rest
             ELSE IF should_skip_timestamp(tz, ts, a.skip_days, a.skip_hours) THEN rest
             ELSE <<Entry(date_dir, hour_name, a.camera, names[i])>> \o rest

\* the loop over sorted(date_path.iterdir())
RECURSIVE WalkHours(_, _, _, _, _, _)
WalkHours(t, tz, a, date_dir, hours, i) ==
    IF i > Len(hours) THEN <<>>
    ELSE LET rest  == WalkHours(t, tz, a, date_dir, hours, i + 1)
             names == { e.file : e \in { x \in t : /\ x.date = date_dir
                                                   /\ x.hour = hours[i]
                                                   /\ x.cam = a.camera } }
         IN  IF ~is_dir(t, date_dir, hours[i]) THEN rest
             ELSE IF ~IsInt(hours[i]) THEN rest
             ELSE IF names = {} THEN rest
             ELSE WalkFiles(t, tz, a, date_dir, hours[i],
                            Sorted({ n \in names : EndsWithMp4(n) }), 1) \o rest

\* the while loop over current_date
RECURSIVE WalkDates(_, _, _, _, _)
WalkDates(t, tz, a, current_day, end_day) ==
    IF current_day > end_day THEN <<>>
    ELSE LET date_dir == strftime_date(current_day)
             hours    == { e.hour : e \in { x \in t : x.date = date_dir } }
         IN  WalkHours(t, tz, a, date_dir, Sorted(hours), 1)
                 \o WalkDates(t, tz, a, current_day + 1, end_day)

find_recording_files_end_inclusive(t, tz, a) ==
    LET b == [a EXCEPT !.end = FromSecs(Secs(a.end) + 1)]
    IN  WalkDates(t, tz, b, a.start.day, a.end.day)

find_recording_files(t, tz, a) ==
    IF ~recordings THEN <<>>
    ELSE WalkDates(t, tz, a, a.start.day, a.end.day)

----------------------------------------------------------------------------
(* Recording trees and locator calls *)

Cameras == {"front", "back"}

TreeDays    == {5, 6}
TreeHours   == {8, 16, 23}
TreeMinutes == {0, 30}

FileName(m, sec) == Str2(m) \o <<Dot>> \o Str2(sec) \o Mp4

\* every file the recorder can have written, in the fixed layout
TreeUniverse ==
    { Entry(strftime_date(d), Str2(h), c, FileName(m, 0)) :
        d \in TreeDays, h \in TreeHours, c \in Cameras, m \in TreeMinutes }

WindowStarts == { DT(5, 8, 0, 0), DT(5, 8, 30, 0), DT(6, 0, 0, 0) }
WindowEnds   == { DT(5, 8, 30, 0), DT(6, 16, 0, 0), DT(6, 23, 30, 0) }

FindSkipDays  == { {}, {5, 6} }
FindSkipHours == { <<>>, <<HourRange(16, 8)>>, <<HourRange(9, 17), HourRange(22, 6)>> }

\* the recorder writes one more segment file
WriteSegment ==
    /\ fl_pc = "walk"
    /\ Cardinality(tree) < MaxTree
    /\ \E e \in TreeUniverse \ tree : tree' = tree \cup {e}
    /\ UNCHANGED <<fl_tz, fl_pc, fl_in, fl_out, recordings>>
    /\ UNCHANGED <<calVars, tlVars, exVars, gridVars, cliVars, runVars>>

FindRecordingFiles ==
    /\ fl_pc = "walk"
    /\ \E camera \in Cameras, start \in WindowStarts, end \in WindowEnds,
          days \in FindSkipDays, ranges \in FindSkipHours :
          LET a == [camera |-> camera, start |-> start, end |-> end,
                    skip_days |-> days, skip_hours |-> ranges]
          IN  /\ fl_in' = a
              /\ fl_out' = find_recording_files(tree, fl_tz, a)
    /\ fl_pc' = "done"
    /\ UNCHANGED <<tree, fl_tz, recordings>>
    /\ UNCHANGED <<calVars, tlVars, exVars, gridVars, cliVars, runVars>>

InitFileList ==
    /\ tree = {}
    /\ fl_tz \in TimeZones
    /\ fl_pc = "walk"
    /\ fl_in = [camera |-> "none"]
    /\ fl_out = <<>>
    /\ recordings = TRUE
    /\ InitCalendarIdle
    /\ InitTimelapseIdle
    /\ InitExtractIdle
    /\ InitGridIdle
    /\ InitCliIdle
    /\ InitRunsIdle

NextFileList == WriteSegment \/ FindRecordingFiles

SpecFileList == InitFileList /\ [][NextFileList]_vars

----------------------------------------------------------------------------
(* Recording locator properties *)

\* the instant a segment file was recorded at, read off its path
EntryTs(e) == parse_file_timestamp(e.date, e.hour, e.file)

Range(f) == { f[i] : i \in 1..Len(f) }

\* C1: find_recording_files returns exactly the segment files of the camera
\* whose timestamp ts has start <= ts < end and is not skipped by the
\* calendar rule, each once; a segment at start is returned, one at end not.
Thm_C1_ExactlyWindowAndRule ==
    fl_pc = "done" =>
        /\ Range(fl_out) =
             { e \in tree : /\ e.cam = fl_in.camera
                            /\ Secs(fl_in.start) <= Secs(EntryTs(e))
                            /\ Secs(EntryTs(e)) < Secs(fl_in.end)
                            /\ ~should_skip_timestamp(fl_tz, EntryTs(e),
                                                      fl_in.skip_days, fl_in.skip_hours) }
        /\ Len(fl_out) = Cardinality(Range(fl_out))
        /\ \A e \in tree :
             e.cam = fl_in.camera /\ EntryTs(e) = fl_in.end => e \notin Range(fl_out)

\* a tree with a segment exactly at start (returned) and one exactly at end
\* (left out)
Wit_C1_BothBoundaries ==
    /\ fl_pc = "done"
    /\ \E e \in tree : e.cam = fl_in.camera /\ EntryTs(e) = fl_in.start
                       /\ e \in Range(fl_out)
    /\ \E e \in tree : e.cam = fl_in.camera /\ EntryTs(e) = fl_in.end
                       /\ e \notin Range(fl_out)

Slash == 47     \* "/"

CameraName(c) ==
    IF c = "front" THEN <<102, 114, 111, 110, 116>>
    ELSE IF c = "back" THEN <<98, 97, 99, 107>>
    ELSE <<120>>

\* the path of a returned file below recordings/, as str(path)
PathOf(e) == e.date \o <<Slash>> \o e.hour \o <<Slash>> \o CameraName(e.cam)
                 \o <<Slash>> \o e.file

\* C16: over a tree in the zero-padded date/hour/minute.second layout the
\* list find_recording_files returns is strictly increasing by segment
\* timestamp, and that is the lexicographic order of the returned paths,
\* across hours and across dates.
Thm_C16_TimestampOrderIsPathOrder ==
    fl_pc = "done" =>
        \A i \in 1..Len(fl_out), j \in 1..Len(fl_out) :
            i < j => /\ Secs(EntryTs(fl_out[i])) < Secs(EntryTs(fl_out[j]))
                     /\ StrLT(PathOf(fl_out[i]), PathOf(fl_out[j]))

\* a result of two segments recorded on different dates, the later of them
\* in an earlier hour of its day
Wit_C16_AcrossDates ==
    /\ fl_pc = "done"
    /\ Len(fl_out) = 2
    /\ fl_out[1].date # fl_out[2].date
    /\ StrLT(fl_out[2].hour, fl_out[1].hour)

----------------------------------------------------------------------------
(* timelapse.py: numbers *)

SampleLimit      == 5       \* min(5, len(input_files))
DefaultDuration  == 10      \* average used when there is no sample
SpeedupThreshold == 30      \* use_frames = speedup >= 30.0
BatchSize        == 100     \* concat_files(batch_size=100)
DefaultFps       == 30      \* encode_timelapse(output_fps=30.0)

Min(a, b) == IF a <= b THEN a ELSE b
Max(a, b) == IF a >= b THEN a ELSE b

RECURSIVE SumSeq(_)
SumSeq(q) == IF Len(q) = 0 THEN 0 ELSE q[1] + SumSeq(Tail(q))

\* a float is kept as an exact fraction <<numerator, denominator>>,
\* denominator > 0
Frac(a, b)     == <<a, b>>
FracDiv(x, y)  == <<x[1] * y[2], x[2] * y[1]>>
FracGE(x, k)   == x[1] >= k * x[2]
FracGT(x, k)   == x[1] > k * x[2]

\* target_duration is given in tenths of a second
Seconds(tenths) == Frac(tenths, 10)

\* int(target_duration * output_fps)
FramesNeeded(target, fps) == (target * fps) \div 10

use_frames_strictly_above(speedup) == FracGT(speedup, SpeedupThreshold)

use_frames_of(speedup) == FracGE(speedup, SpeedupThreshold)

----------------------------------------------------------------------------
(* timelapse.py: files on disk *)

OutputFile      == <<"output", 0, 0>>           \* output_path
ConcatTemp      == <<"concat_mp4", 0, 0>>       \* .{stem}_concat.mp4
ConcatDir       == <<"concat_dir", 0, 0>>       \* mkdtemp(prefix="frigate_concat_")
Intermediate(i) == <<"intermediate", i, 0>>     \* temp_dir/intermediate_{i}.mp4
Manifest        == <<"manifest", 0, 0>>         \* NamedTemporaryFile(suffix=".txt")
FramesTxt       == <<"frames_txt", 0, 0>>       \* .{stem}_frames.txt
FramesDir       == <<"frames_dir", 0, 0>>       \* mkdtemp(prefix="frigate_frames_")
Frame(i, k)     == <<"frame", i, k>>            \* temp_dir/{i:06d}_{k:04d}.jpg

DirOf(a) ==
    IF a[1] = "intermediate" THEN ConcatDir
    ELSE IF a[1] = "frame" THEN FramesDir
    ELSE <<"workdir", 0, 0>>

\* shutil.rmtree(dir, ignore_errors=True)
rmtree(d, dir) == { a \in d : a # dir /\ DirOf(a) # dir }

\* path.unlink(missing_ok=True)
unlink(d, f) == d \ {f}

\* a process that returns non-zero may or may not have left its output file
ProcOutcomes == {"ok", "fail", "fail_partial"}

Wrote(outcome, f) == IF outcome = "fail" THEN {} ELSE {f}

\* nokey: was the process given "-skip_frame nokey"?  by: the frame
\* extractors are spawned by the pool's worker processes, every other
\* process by the process that called create_timelapse
Proc(kind, hw, fps, inputs, outcome) ==
    [kind |-> kind, hw |-> hw, fps |-> fps, inputs |-> inputs, ok |-> (outcome = "ok"),
     nokey |-> FALSE, by |-> IF kind = "extract" THEN "worker" ELSE "caller"]

HWAccel == {"none", "qsv", "vaapi"}

WorkInit ==
    [frames_needed |-> 0, extract_all |-> FALSE, files_to_process |-> <<>>,
     frame_files |-> <<>>, batch_i |-> 0, intermediates |-> <<>>,
     concat_duration |-> 0, depth |-> 0,
     extracted |-> <<>>]     \* what extract_keyframes_parallel returned (history)

----------------------------------------------------------------------------
(* timelapse.py: create_timelapse *)

TargetDurations == {5, 10, 20, 600}     \* tenths of a second
OutputFpsSet    == {1, 4, 30}
ProbeDurations  == {0, 10}              \* get_video_duration: 0.0 when ffprobe fails

\* create_timelapse up to the choice of the strategy: probes the leading
\* segments, computes the speed-up, selects
create_timelapse ==
    /\ tl_pc = "idle"
    /\ \E n \in 0..MaxInputs, target \in TargetDurations, fps \in OutputFpsSet,
          keep \in BOOLEAN, hw \in HWAccel :
       \E sample_durations \in [1..Min(SampleLimit, n) -> ProbeDurations] :
          LET sample_count    == Min(SampleLimit, n)
              avg             == IF Len(sample_durations) > 0
                                 THEN Frac(SumSeq(sample_durations), Len(sample_durations))
                                 ELSE Frac(DefaultDuration, 1)
              source_duration == Frac(n * avg[1], avg[2])
              speedup         == FracDiv(source_duration, Seconds(target))
              use_frames      == use_frames_of(speedup)
          IN  /\ tl_in' = [n |-> n, target |-> target, fps |-> fps,
                           keep_temp |-> keep, hwaccel |-> hw]
              /\ tl_sel' = [sample_durations |-> sample_durations,
                            source_duration |-> source_duration,
                            speedup |-> speedup, use_frames |-> use_frames]
              /\ procs' = [i \in 1..sample_count |->
                             Proc("ffprobe", "none", 0, 1,
                                  IF sample_durations[i] > 0 THEN "ok" ELSE "fail")]
              /\ tl_hw' = hw
              /\ tl_pc' = IF use_frames THEN "frames" ELSE "concat"
    /\ tl_work' = WorkInit
    /\ UNCHANGED <<tl_ret, disk, created, ran>>
    /\ UNCHANGED <<calVars, flVars, exVars, gridVars, cliVars, runVars>>

----------------------------------------------------------------------------
(* timelapse.py: frame extraction strategy *)

FramesFinally_no_cleanup(d) == d

\* the finally block of _create_timelapse_frames
FramesFinally(d) == IF tl_in.keep_temp THEN d ELSE rmtree(d, FramesDir)

\* indices = [int(i * (n_files - 1) / (frames_needed - 1)) for i in range(frames_needed)]
SampleIndices(n_files, frames_needed) ==
    [j \in 1..frames_needed |-> ((j - 1) * (n_files - 1)) \div (frames_needed - 1)]

\* _create_timelapse_frames up to the start of the extraction
frames_start ==
    /\ tl_pc = "frames"
    /\ ran' = ran \cup {"frames"}
    /\ LET n             == tl_in.n
           frames_needed == FramesNeeded(tl_in.target, tl_in.fps)
           extract_all   == frames_needed > n
           sampling      == ~extract_all /\ frames_needed < n
       IN  IF sampling /\ frames_needed = 1
           THEN \* frames_needed - 1 = 0
                /\ tl_ret' = "ZeroDivisionError"
                /\ tl_pc' = "done"
                /\ UNCHANGED <<tl_work, disk, created>>
           ELSE IF sampling /\ frames_needed = 0
           THEN \* first_idx=indices[0] of an empty list
                /\ tl_ret' = "IndexError"
                /\ tl_pc' = "done"
                /\ UNCHANGED <<tl_work, disk, created>>
           ELSE /\ tl_work' = [tl_work EXCEPT
                                 !.frames_needed = frames_needed,
                                 !.extract_all = extract_all,
                                 !.files_to_process =
                                     IF sampling THEN SampleIndices(n, frames_needed)
                                     ELSE [j \in 1..n |-> j - 1]]
                /\ disk' = disk \cup {FramesDir}
                /\ created' = created \cup {FramesDir}
                /\ tl_pc' = "extract"
                /\ UNCHANGED tl_ret
    /\ UNCHANGED <<tl_in, tl_sel, tl_hw, procs>>
    /\ UNCHANGED <<calVars, flVars, exVars, gridVars, cliVars, runVars>>

\* the decimal digits of n
RECURSIVE Digits(_)
Digits(n) == IF n < 10 THEN <<48 + n>> ELSE Digits(n \div 10) \o <<48 + (n % 10)>>

\* "%0<width>d": zero-padded to at least width characters
RECURSIVE ZeroPad(_, _)
ZeroPad(d, width) == IF Len(d) >= width THEN d ELSE ZeroPad(<<48>> \o d, width)

\* f"{file_index:06d}_%04d.jpg", as the worker and ffmpeg fill it in
FrameFileName(frame) ==
    ZeroPad(Digits(frame[2]), 6) \o <<Underscore>> \o ZeroPad(Digits(frame[3]), 4)
        \o <<Dot, 106, 112, 103>>

\* all_frames.sort(): the paths lie in one directory and order by name
RECURSIVE SortFrames(_)
SortFrames(S) ==
    IF S = {} THEN <<>>
    ELSE LET m == CHOOSE x \in S : \A y \in S \ {x} :
                      NameBefore(FrameFileName(x), FrameFileName(y))
         IN  <<m>> \o SortFrames(S \ {m})

\* frame_files[::frame_interval][:frames_needed]
Downsample(frame_files, frames_needed) ==
    IF Len(frame_files) > frames_needed
    THEN LET frame_interval == Max(1, Len(frame_files) \div frames_needed)
             strided == [j \in 1..((Len(frame_files) + frame_interval - 1) \div frame_interval)
                            |-> frame_files[1 + (j - 1) * frame_interval]]
         IN  SubSeq(strided, 1, Min(frames_needed, Len(strided)))
    ELSE frame_files

\* extract_keyframes_parallel (one worker task per file; a task either
\* returns its frames or an error), then the empty check and the
\* down-sampling of _create_timelapse_frames
extract_keyframes ==
    /\ tl_pc = "extract"
    /\ LET m   == Len(tl_work.files_to_process)
           per == IF tl_work.extract_all THEN KeyframesPerFile ELSE 1
       IN  \E good \in SUBSET (1..m), partial \in BOOLEAN :
             LET returned == { Frame(i - 1, k) : i \in good, k \in 1..per }
                 \* a task that failed or timed out may have written a frame
                 stray    == IF partial THEN { Frame(i - 1, 1) : i \in (1..m) \ good }
                             ELSE {}
                 frame_files == SortFrames(returned)
                 d1       == disk \cup returned \cup stray
             IN  /\ procs' = procs \o [i \in 1..m |->
                                [Proc("extract", "none", 0, 1,
                                      IF i \in good THEN "ok" ELSE "fail")
                                   EXCEPT !.nokey = tl_work.extract_all]]
                 /\ created' = created \cup returned \cup stray
                 /\ IF frame_files = <<>>
                    THEN /\ tl_ret' = "False"
                         /\ tl_pc' = "done"
                         /\ disk' = FramesFinally(d1)
                         /\ UNCHANGED tl_work
                    ELSE /\ tl_work' = [tl_work EXCEPT
                                          !.extracted = frame_files,
                                          !.frame_files =
                                             Downsample(frame_files, tl_work.frames_needed)]
                         /\ tl_pc' = "encode_frames"
                         /\ disk' = d1
                         /\ UNCHANGED tl_ret
    /\ UNCHANGED <<tl_in, tl_sel, tl_hw, ran>>
    /\ UNCHANGED <<calVars, flVars, exVars, gridVars, cliVars, runVars>>

FallsBack_always(hw) == TRUE

\* does a failed encode with this hwaccel call itself again with NONE?
FallsBack(hw) == hw # "none"

\* one call of encode_frames_to_video: writes the frame list, runs the
\* encoder; a failed accelerated encode calls itself with HWAccel.NONE
encode_frames_to_video ==
    /\ tl_pc = "encode_frames"
    /\ \E outcome \in ProcOutcomes :
         LET d1 == disk \cup {FramesTxt} \cup Wrote(outcome, OutputFile)
         IN  /\ procs' = Append(procs, Proc("encode", tl_hw, tl_in.fps,
                                            Len(tl_work.frame_files), outcome))
             /\ created' = created \cup {FramesTxt} \cup Wrote(outcome, OutputFile)
             /\ IF outcome # "ok" /\ FallsBack(tl_hw)
                THEN /\ tl_hw' = "none"
                     /\ tl_work' = [tl_work EXCEPT !.depth = @ + 1]
                     /\ disk' = d1
                     /\ UNCHANGED <<tl_pc, tl_ret>>
                ELSE /\ tl_ret' = IF outcome = "ok" THEN "True" ELSE "False"
                     /\ tl_pc' = "done"
                     \* finally of every encode_frames_to_video level, then
                     \* finally of _create_timelapse_frames
                     /\ disk' = FramesFinally(unlink(d1, FramesTxt))
                     /\ UNCHANGED <<tl_hw, tl_work>>
    /\ UNCHANGED <<tl_in, tl_sel, ran>>
    /\ UNCHANGED <<calVars, flVars, exVars, gridVars, cliVars, runVars>>

----------------------------------------------------------------------------
(* timelapse.py: concat + retime strategy *)

\* the finally block of _create_timelapse_concat
ConcatFinally(d) == IF tl_in.keep_temp THEN d ELSE unlink(d, ConcatTemp)

\* _create_timelapse_concat and concat_files up to the first batch
concat_start ==
    /\ tl_pc = "concat"
    /\ ran' = ran \cup {"concat"}
    /\ IF tl_in.n = 0
       THEN \* concat_files: "No input files provided"
            /\ tl_ret' = "False"
            /\ tl_pc' = "done"
            /\ disk' = ConcatFinally(disk)
            /\ UNCHANGED created
       ELSE /\ disk' = disk \cup {ConcatDir}
            /\ created' = created \cup {ConcatDir}
            /\ tl_pc' = "concat_batch"
            /\ UNCHANGED tl_ret
    /\ UNCHANGED <<tl_in, tl_sel, tl_hw, tl_work, procs>>
    /\ UNCHANGED <<calVars, flVars, exVars, gridVars, cliVars, runVars>>

\* "if not _concat_batch(...)": a batch failed when ffmpeg returned non-zero
BatchFailed_never(outcome) == FALSE

BatchFailed(outcome) == outcome # "ok"

TotalBatches(total_files) == (total_files + BatchSize - 1) \div BatchSize

\* one turn of the batch loop of concat_files: _concat_batch on the batch
concat_batch ==
    /\ tl_pc = "concat_batch"
    /\ \E outcome \in ProcOutcomes :
         LET i     == tl_work.batch_i
             batch == Min((i + 1) * BatchSize, tl_in.n) - i * BatchSize
             made  == {Manifest} \cup Wrote(outcome, Intermediate(i))
             \* finally of _concat_batch
             d1    == unlink(disk \cup made, Manifest)
         IN  /\ procs' = Append(procs, Proc("concat", "none", 0, batch, outcome))
             /\ created' = created \cup made
             /\ IF BatchFailed(outcome)
                THEN /\ tl_ret' = "False"
                     /\ tl_pc' = "done"
                     \* finally of concat_files, then of _create_timelapse_concat
                     /\ disk' = ConcatFinally(rmtree(d1, ConcatDir))
                     /\ UNCHANGED tl_work
                ELSE /\ tl_work' = [tl_work EXCEPT
                                      !.intermediates = Append(@, i),
                                      !.batch_i = i + 1]
                     /\ tl_pc' = IF i + 1 < TotalBatches(tl_in.n)
                                 THEN "concat_batch" ELSE "concat_final"
                     /\ disk' = d1
                     /\ UNCHANGED tl_ret
    /\ UNCHANGED <<tl_in, tl_sel, tl_hw, ran>>
    /\ UNCHANGED <<calVars, flVars, exVars, gridVars, cliVars, runVars>>

\* the last _concat_batch of concat_files, over the intermediates
concat_final ==
    /\ tl_pc = "concat_final"
    /\ \E outcome \in ProcOutcomes, duration \in {0, 1} :
         LET made == {Manifest} \cup Wrote(outcome, ConcatTemp)
             \* finally of _concat_batch, finally of concat_files
             d1   == rmtree(unlink(disk \cup made, Manifest), ConcatDir)
         IN  /\ procs' = Append(procs, Proc("concat", "none", 0,
                                            Len(tl_work.intermediates), outcome))
             /\ created' = created \cup made
             /\ IF BatchFailed(outcome)
                THEN /\ duration = 0
                     /\ tl_ret' = "False"
                     /\ tl_pc' = "done"
                     /\ disk' = ConcatFinally(d1)
                     /\ UNCHANGED tl_work
                ELSE \* what ffprobe will report for the concatenated file
                     /\ tl_work' = [tl_work EXCEPT !.concat_duration = duration]
                     /\ tl_pc' = "encode_timelapse"
                     /\ disk' = d1
                     /\ UNCHANGED tl_ret
    /\ UNCHANGED <<tl_in, tl_sel, tl_hw, ran>>
    /\ UNCHANGED <<calVars, flVars, exVars, gridVars, cliVars, runVars>>

\* one call of encode_timelapse: probes the input, runs the encoder; a
\* failed accelerated encode calls itself with HWAccel.NONE
encode_timelapse ==
    /\ tl_pc = "encode_timelapse"
    /\ LET probe == Proc("ffprobe", "none", 0, 1,
                         IF tl_work.concat_duration > 0 THEN "ok" ELSE "fail")
       IN  IF tl_work.concat_duration <= 0
           THEN \* "Could not determine source duration"
                /\ procs' = Append(procs, probe)
                /\ tl_ret' = "False"
                /\ tl_pc' = "done"
                /\ disk' = ConcatFinally(disk)
                /\ UNCHANGED <<tl_hw, tl_work, created>>
           ELSE \E outcome \in ProcOutcomes :
                  LET d1 == disk \cup Wrote(outcome, OutputFile)
                  IN  /\ procs' = procs \o <<probe, Proc("encode", tl_hw, DefaultFps, 1, outcome)>>
                      /\ created' = created \cup Wrote(outcome, OutputFile)
                      /\ IF outcome # "ok" /\ FallsBack(tl_hw)
                         THEN /\ tl_hw' = "none"
                              /\ tl_work' = [tl_work EXCEPT !.depth = @ + 1]
                              /\ disk' = d1
                              /\ UNCHANGED <<tl_pc, tl_ret>>
                         ELSE /\ tl_ret' = IF outcome = "ok" THEN "True" ELSE "False"
                              /\ tl_pc' = "done"
                              /\ disk' = ConcatFinally(d1)
                              /\ UNCHANGED <<tl_hw, tl_work>>
    /\ UNCHANGED <<tl_in, tl_sel, ran>>
    /\ UNCHANGED <<calVars, flVars, exVars, gridVars, cliVars, runVars>>

InitTimelapse ==
    /\ tl_pc = "idle"
    /\ tl_in = [n |-> 0]
    /\ tl_sel = [use_frames |-> FALSE]
    /\ tl_hw = "none"
    /\ tl_work = [depth |-> 0]
    /\ tl_ret = "none"
    /\ disk = {}
    /\ created = {}
    /\ procs = <<>>
    /\ ran = {}
    /\ InitCalendarIdle
    /\ InitFileListIdle
    /\ InitExtractIdle
    /\ InitGridIdle
    /\ InitCliIdle
    /\ InitRunsIdle

NextTimelapse ==
    \/ create_timelapse
    \/ frames_start
    \/ extract_keyframes
    \/ encode_frames_to_video
    \/ concat_start
    \/ concat_batch
    \/ concat_final
    \/ encode_timelapse

SpecTimelapse == InitTimelapse /\ [][NextTimelapse]_vars

----------------------------------------------------------------------------
(* Timelapse properties *)

TlCalled == tl_pc \notin {"off", "idle"}
TlDone   == tl_pc = "done"

EncodeIdx == { i \in 1..Len(procs) : procs[i].kind = "encode" }
ConcatIdx == { i \in 1..Len(procs) : procs[i].kind = "concat" }

TempOf(d) == d \ {OutputFile}

\* speedup >= 30 written out on the call's arguments: segments x average of
\* the sampled durations / target, target in tenths of a second
SpeedupAtLeast30 ==
    LET k == Len(tl_sel.sample_durations)
    IN  /\ k > 0
        /\ tl_in.n * SumSeq(tl_sel.sample_durations) * 10 >= 30 * tl_in.target * k

SpeedupExactly30 ==
    LET k == Len(tl_sel.sample_durations)
    IN  /\ k > 0
        /\ tl_in.n * SumSeq(tl_sel.sample_durations) * 10 = 30 * tl_in.target * k

\* C5: speedup = segments x average probed duration of the leading sampled
\* segments / target_duration; the frame strategy runs exactly when
\* speedup >= 30, concat+retime exactly when speedup < 30, and exactly one
\* of the two runs per call.
Thm_C5_ThresholdSelectsOne ==
    TlCalled =>
        LET expected == IF SpeedupAtLeast30 THEN "frames" ELSE "concat"
        IN  /\ Len(tl_sel.sample_durations) = Min(5, tl_in.n)
            /\ ran \subseteq {expected}
            /\ (tl_pc \notin {"frames", "concat"} => ran = {expected})

\* a finished call over more segments than are sampled whose speed-up is
\* exactly 30 and which ran the frame strategy
Wit_C5_ExactlyThirty ==
    /\ TlDone
    /\ tl_in.n > 5
    /\ SpeedupExactly30
    /\ ran = {"frames"}
    /\ \E i \in 1..Len(procs) : procs[i].kind = "extract"

\* C6: after create_timelapse has returned with keep_temp false, whatever
\* the outcome, none of the temporary artifacts of the strategy is on disk.
Thm_C6_NoTempLeft ==
    (TlDone /\ ~tl_in.keep_temp) => TempOf(disk) = {}

\* a failed run of the frame strategy that had written the frame directory,
\* frames and the frame list, and a failed encode
Wit_C6_FailedFramesRun ==
    /\ TlDone
    /\ ~tl_in.keep_temp
    /\ tl_ret = "False"
    /\ {FramesDir, FramesTxt, Frame(0, 1)} \subseteq created
    /\ TempOf(disk) = {}

\* C7: a failed accelerated encode is retried exactly once with acceleration
\* off before failure is reported, a failed software encode is never
\* retried; so one encode call spawns at most two encoders and the fallback
\* is at most one level deep.
Thm_C7_OneSoftwareRetry ==
    TlCalled =>
        /\ Cardinality(EncodeIdx) <= 2
        /\ tl_work.depth <= 1
        /\ \A i \in EncodeIdx :
             \* nothing follows a software encode or a successful encode
             /\ (procs[i].hw = "none" \/ procs[i].ok) =>
                    \A j \in EncodeIdx : j <= i
             \* a failed accelerated encode is followed by the software retry
             /\ (procs[i].hw # "none" /\ ~procs[i].ok) =>
                    /\ \A j \in EncodeIdx : j > i => procs[j].hw = "none"
                    /\ (TlDone => \E j \in EncodeIdx : j > i)
                    /\ (~TlDone => tl_hw = "none" /\ tl_ret = "none")

\* a call whose accelerated encode failed and whose software retry ran
Wit_C7_RetriedInSoftware ==
    /\ TlDone
    /\ Cardinality(EncodeIdx) = 2
    /\ \E i \in EncodeIdx, j \in EncodeIdx :
         i < j /\ procs[i].hw = "qsv" /\ ~procs[i].ok /\ procs[j].hw = "none"

\* C8: in concat+retime the encoder starts only after the whole lossless
\* concatenation succeeded; after a failed concatenation no encoder is ever
\* started, and a failure of either phase makes create_timelapse return
\* False.
Thm_C8_ConcatBeforeEncode ==
    (TlCalled /\ "concat" \in ran) =>
        /\ \A i \in EncodeIdx :
             /\ \A j \in ConcatIdx : j < i /\ procs[j].ok
             /\ Cardinality(ConcatIdx) = TotalBatches(tl_in.n) + 1
        /\ (\E j \in ConcatIdx : ~procs[j].ok) => EncodeIdx = {}
        /\ (TlDone /\ \E j \in 1..Len(procs) : ~procs[j].ok /\ j > Len(tl_sel.sample_durations)
                                               /\ \A i \in EncodeIdx : i <= j)
              => tl_ret = "False"

\* a concat+retime call whose concatenation succeeded and whose encode failed
Wit_C8_EncodeFailedAfterConcat ==
    /\ TlDone
    /\ "concat" \in ran
    /\ ConcatIdx # {} /\ \A j \in ConcatIdx : procs[j].ok
    /\ EncodeIdx # {} /\ \A i \in EncodeIdx : ~procs[i].ok
    /\ tl_ret = "False"

\* C9: whenever create_timelapse returns failure, no partial output file is
\* left at the output path by that run.
Claim_C9_NoPartialOutput ==
    (TlDone /\ tl_ret = "False") => OutputFile \notin disk

\* C10: for every segment list, every target_duration > 0 and every
\* output_fps > 0, create_timelapse returns a boolean; no exception escapes.
Claim_C10_ReturnsBoolean ==
    TlDone => tl_ret \in {"True", "False"}

\* C11: when the duration probe fails for every sampled leading segment,
\* create_timelapse averages with a positive fallback constant, so a
\* non-empty input has a positive source-duration estimate; a failed probe
\* is never counted as a duration of 0.
Claim_C11_ProbeFailureFallsBack ==
    (/\ TlCalled
     /\ tl_in.n > 0
     /\ \A i \in 1..Len(tl_sel.sample_durations) : tl_sel.sample_durations[i] = 0)
        => FracGT(tl_sel.source_duration, 0)

\* C12: in the frame strategy, for 1 <= frames_needed < number of segments
\* the sampled indices are floor(i x (segments-1) / (frames_needed-1)) for
\* i = 0..frames_needed-1; the first is 0 and the last is segments-1.
Claim_C12_SampleIndicesSpanInput ==
    LET n  == tl_in.n
        fn == FramesNeeded(tl_in.target, tl_in.fps)
        ix == tl_work.files_to_process
    IN  (TlCalled /\ "frames" \in ran /\ 1 <= fn /\ fn < n) =>
            /\ Len(ix) = fn
            /\ \A j \in 1..fn :
                 /\ ix[j] * (fn - 1) <= (j - 1) * (n - 1)
                 /\ (j - 1) * (n - 1) < (ix[j] + 1) * (fn - 1)
            /\ ix[1] = 0
            /\ ix[fn] = n - 1

\* the processes the calling process spawned itself, the duration probes of
\* the selector aside
CallerSpawned ==
    { i \in 1..Len(procs) : procs[i].by = "caller" /\ procs[i].kind # "ffprobe" }

\* C15: for a speedup >= 30 create_timelapse produces the output in a
\* single pass: no concatenation, exactly one encoder process spawned by
\* the calling process, and that process is given -skip_frame nokey.
Claim_C15_OneKeyframeOnlyEncoder ==
    (TlDone /\ SpeedupAtLeast30 /\ tl_ret = "True") =>
        /\ ConcatIdx = {}
        /\ Cardinality(CallerSpawned) = 1
        /\ \A i \in CallerSpawned : procs[i].kind = "encode" /\ procs[i].nokey

----------------------------------------------------------------------------
(* timelapse.py: extract_keyframes_parallel, one worker result at a time *)

\* what one run of the worker's ffmpeg can come to: frames written, exit 0
\* with no frame found by the glob, non-zero exit without or with a frame
\* left behind, TimeoutExpired
WorkerOutcomes == {"frames", "empty", "failed", "failed_partial", "timeout"}

FramesPerTask(extract_all) == IF extract_all THEN KeyframesPerFile ELSE 1

\* _extract_frames_worker((file_path, output_dir, file_index, extract_all)):
\* the tuple it returns, and what its ffmpeg left in output_dir
_extract_frames_worker(file_index, extract_all, outcome) ==
    [index   |-> file_index,
     outcome |-> outcome,
     frames  |-> IF outcome = "frames"
                 THEN [k \in 1..FramesPerTask(extract_all) |-> Frame(file_index, k)]
                 ELSE <<>>,
     error   |-> IF outcome \in {"failed", "failed_partial"} THEN "ffmpeg failed"
                 ELSE IF outcome = "timeout" THEN "Timeout extracting frames"
                 ELSE "None",
     written |-> IF outcome = "frames"
                 THEN { Frame(file_index, k) : k \in 1..FramesPerTask(extract_all) }
                 ELSE IF outcome = "failed_partial" THEN { Frame(file_index, 1) }
                 ELSE {}]

\* the futures as_completed() has not yielded yet
ExPending ==
    (0..(ex_in.m - 1)) \ { ex_completed[j].index : j \in 1..Len(ex_completed) }

\* extract_keyframes_parallel up to the submission of the work items
extract_keyframes_parallel ==
    /\ ex_pc = "idle"
    /\ \E m \in 1..MaxTasks, extract_all \in BOOLEAN :
         ex_in' = [m |-> m, extract_all |-> extract_all]
    /\ ex_pc' = "running"
    /\ disk' = disk \cup {FramesDir}
    /\ created' = created \cup {FramesDir}
    /\ UNCHANGED <<ex_completed, ex_all_frames, ex_errors, ex_out, ex_ret>>
    /\ UNCHANGED <<tlCtl, procs>>
    /\ UNCHANGED <<calVars, flVars, gridVars, cliVars, runVars>>

\* one turn of "for future in as_completed(futures)": any task that has
\* not been yielded yet finishes and its result is taken
future_completed ==
    /\ ex_pc = "running"
    /\ \E i \in ExPending, outcome \in WorkerOutcomes :
         LET r == _extract_frames_worker(i, ex_in.extract_all, outcome)
         IN  /\ ex_completed' = Append(ex_completed, r)
             /\ IF r.error # "None"
                THEN /\ ex_errors' = ex_errors + 1
                     /\ UNCHANGED ex_all_frames
                ELSE /\ ex_all_frames' = ex_all_frames \o r.frames
                     /\ UNCHANGED ex_errors
             /\ procs' = Append(procs,
                                [Proc("extract", "none", 0, 1,
                                      IF outcome \in {"frames", "empty"} THEN "ok" ELSE "fail")
                                   EXCEPT !.nokey = ex_in.extract_all])
             /\ disk' = disk \cup r.written
             /\ created' = created \cup r.written
    /\ UNCHANGED <<ex_pc, ex_in, ex_out, ex_ret>>
    /\ UNCHANGED tlCtl
    /\ UNCHANGED <<calVars, flVars, gridVars, cliVars, runVars>>

sort_all_frames_as_completed(all_frames) == all_frames

\* "all_frames.sort()"
sort_all_frames(all_frames) ==
    SortFrames({ all_frames[j] : j \in 1..Len(all_frames) })

ExtractionFailed_on_any_error(frame_files) == ex_errors > 0 \/ Len(frame_files) = 0

\* "if not frame_files: return False" of _create_timelapse_frames
ExtractionFailed(frame_files) == Len(frame_files) = 0

\* the pool is drained: all_frames.sort(), return; then the caller's check
extract_return ==
    /\ ex_pc = "running"
    /\ ExPending = {}
    /\ LET all_frames == sort_all_frames(ex_all_frames)
       IN  /\ ex_out' = all_frames
           /\ ex_ret' = IF ExtractionFailed(all_frames) THEN "False" ELSE "continue"
    /\ ex_pc' = "returned"
    /\ UNCHANGED <<ex_in, ex_completed, ex_all_frames, ex_errors>>
    /\ UNCHANGED tlVars
    /\ UNCHANGED <<calVars, flVars, gridVars, cliVars, runVars>>

InitExtract ==
    /\ ex_pc = "idle"
    /\ ex_in = [m |-> 0]
    /\ ex_completed = <<>>
    /\ ex_all_frames = <<>>
    /\ ex_errors = 0
    /\ ex_out = <<>>
    /\ ex_ret = "none"
    /\ InitCalendarIdle
    /\ InitFileListIdle
    /\ InitTimelapseIdle
    /\ InitGridIdle
    /\ InitCliIdle
    /\ InitRunsIdle

NextExtract == extract_keyframes_parallel \/ future_completed \/ extract_return

SpecExtract == InitExtract /\ [][NextExtract]_vars

----------------------------------------------------------------------------
(* Parallel extraction properties *)

ExResults == { ex_completed[j] : j \in 1..Len(ex_completed) }

\* C13: a per-file extraction task that fails or times out only leaves its
\* own frames out of the result; every other task still runs and the run
\* goes on.  The extraction stage fails the operation exactly when no frame
\* at all was extracted.
Thm_C13_OnlyZeroFramesIsFatal ==
    /\ (ex_pc = "running" => ex_ret = "none")
    /\ ex_pc = "returned" =>
          /\ { r.index : r \in ExResults } = 0..(ex_in.m - 1)
          /\ Len(ex_completed) = ex_in.m
          /\ Range(ex_out) =
                { Frame(r.index, k) : r \in { x \in ExResults : x.outcome = "frames" },
                                      k \in 1..FramesPerTask(ex_in.extract_all) }
          /\ (ex_ret = "False") = (Len(ex_out) = 0)
          /\ (ex_ret = "False") = (\A r \in ExResults : r.outcome # "frames")
          /\ ex_ret \in {"False", "continue"}

\* three tasks: the first to finish timed out, the second failed, the last
\* one delivered its frames, and the run goes on with them
Wit_C13_TwoFailuresOneSuccess ==
    /\ ex_pc = "returned"
    /\ ex_in.m = 3
    /\ ex_completed[1].outcome = "timeout"
    /\ ex_completed[2].outcome = "failed"
    /\ ex_completed[3].outcome = "frames"
    /\ ex_errors = 2
    /\ ex_ret = "continue"

----------------------------------------------------------------------------
(* cli.py: the "timelapse create" command *)

RECURSIVE LeadingDigits(_)
LeadingDigits(s) ==
    IF Len(s) > 0 /\ IsDigit(s[1]) THEN 1 + LeadingDigits(Tail(s)) ELSE 0

\* the optional group (?:(\d+)<unit>)? at the head of s
TakeUnit(s, unit) ==
    LET k == LeadingDigits(s)
    IN  IF k > 0 /\ Len(s) > k /\ s[k + 1] = unit
        THEN [matched |-> TRUE, value |-> IntOf(SubSeq(s, 1, k)),
              rest |-> SubSeq(s, k + 2, Len(s))]
        ELSE [matched |-> FALSE, value |-> 0, rest |-> s]

ValueError == [raised |-> "ValueError"]

\* parse_duration: seconds, or ValueError when the string does not match
\* (?:(\d+)h)?(?:(\d+)m)?(?:(\d+)s)? with a group present, or totals 0
parse_duration(duration_str) ==
    LET str == Strip(Lower(duration_str))
        h   == TakeUnit(str, 104)
        m   == TakeUnit(h.rest, 109)
        sec == TakeUnit(m.rest, 115)
        total_seconds == h.value * 3600 + m.value * 60 + sec.value
    IN  IF Len(sec.rest) # 0 \/ ~(h.matched \/ m.matched \/ sec.matched)
        THEN ValueError
        ELSE IF total_seconds <= 0 THEN ValueError
        ELSE [seconds |-> total_seconds]

NonEmpty(c) == Len(c) > 0

\* [c.strip() for c in cameras.split(",") if c.strip()]
camera_list_of(cameras) ==
    LET parts == Split(cameras, Comma)
    IN  SelectSeq([i \in 1..Len(parts) |-> Strip(parts[i])], NonEmpty)

\* --duration values: "5m", "1h5m", " 5M ", "0s", "", "5", "5x", "5m1h"
DurationPool ==
    { <<53, 109>>, <<49, 104, 53, 109>>, <<Space, 53, 77, Space>>, <<48, 115>>,
      <<>>, <<53>>, <<53, 120>>, <<53, 109, 49, 104>> }

\* --cameras values: "a", "a,b", "a, ", "", " , "
CameraPool ==
    { <<97>>, <<97, Comma, 98>>, <<97, Comma, Space>>, <<>>, <<Space, Comma, Space>> }

\* --instance given and present, given and absent, not given and
\* find_frigate_instance() finds one, not given and none found
InstanceCases == {"given", "given_missing", "auto_found", "auto_none"}

\* _timelapse_create_impl up to the banner: options are parsed and checked
timelapse_create ==
    /\ cli_pc = "idle"
    /\ \E duration \in DurationPool, cameras \in CameraPool,
          instance \in InstanceCases, dry_run \in BOOLEAN :
         LET target_duration == parse_duration(duration)
             camera_list     == camera_list_of(cameras)
             error == IF target_duration = ValueError THEN "1: Invalid duration"
                      ELSE IF Len(camera_list) = 0 THEN "1: No cameras specified"
                      ELSE IF instance = "auto_none"
                           THEN "1: Could not auto-detect Frigate instance"
                      ELSE IF instance = "given_missing"
                           THEN "1: Instance path does not exist"
                      ELSE "none"
         IN  /\ cli_in' = [duration |-> duration, cameras |-> cameras,
                            instance |-> instance, dry_run |-> dry_run]
             /\ cli_work' = [target_duration |-> target_duration,
                              camera_list |-> camera_list,
                              hwaccel |-> "unset", file_lists |-> <<>>]
             /\ cli_exit' = error
             /\ cli_pc' = IF error = "none" THEN "hwaccel" ELSE "exit"
    /\ UNCHANGED <<hwaccel_cache, hw_calls>>
    /\ UNCHANGED tlVars
    /\ UNCHANGED <<calVars, flVars, exVars, gridVars, runVars>>

\* what a run of "ffmpeg -encoders" comes to: the encoders it lists,
\* TimeoutExpired, or FileNotFoundError (no process was started)
EncoderListings == { {}, {"h264_qsv"}, {"h264_vaapi"}, {"h264_qsv", "h264_vaapi"} }

EncoderRuns ==
    { [raised |-> "none", encoders |-> e] : e \in EncoderListings }
        \cup { [raised |-> r, encoders |-> {}] : r \in {"TimeoutExpired", "FileNotFoundError"} }

TestOutcomes == {"ok", "fail", "timeout"}

\* detect_hwaccel: the HWAccel it returns and the processes it spawned
detect_hwaccel(render_device, listing, qsv_test, vaapi_test) ==
    LET enc == Proc("hw_encoders", "none", 0, 0,
                    IF listing.raised = "none" THEN "ok" ELSE "fail")
        qsv == Proc("hw_test", "qsv", 0, 0, qsv_test)
        va  == Proc("hw_test", "vaapi", 0, 0, vaapi_test)
        has_qsv   == "h264_qsv" \in listing.encoders
        has_vaapi == "h264_vaapi" \in listing.encoders
    IN  IF ~render_device THEN [hwaccel |-> "none", spawned |-> <<>>]
        ELSE IF listing.raised = "FileNotFoundError"
             THEN [hwaccel |-> "none", spawned |-> <<>>]
        ELSE IF listing.raised = "TimeoutExpired"
             THEN [hwaccel |-> "none", spawned |-> <<enc>>]
        ELSE IF has_qsv /\ qsv_test = "ok"
             THEN [hwaccel |-> "qsv", spawned |-> <<enc, qsv>>]
        ELSE IF has_qsv /\ qsv_test = "timeout"
             THEN [hwaccel |-> "none", spawned |-> <<enc, qsv>>]
        ELSE LET before == IF has_qsv THEN <<enc, qsv>> ELSE <<enc>>
             IN  IF has_vaapi
                 THEN [hwaccel |-> IF vaapi_test = "ok" THEN "vaapi" ELSE "none",
                       spawned |-> Append(before, va)]
                 ELSE [hwaccel |-> "none", spawned |-> before]

CacheIsUnset_when_no_acceleration(cache) == cache \in {"None", "none"}

\* "_hwaccel_cache is None": "None" is Python's None, "none" is HWAccel.NONE
CacheIsUnset(cache) == cache = "None"

\* get_hwaccel() in a process whose cache holds `cache`, when a detection
\* would see the environment env: the value returned, the cache afterwards,
\* the processes spawned, and whether detect_hwaccel ran
get_hwaccel(cache, env) ==
    IF CacheIsUnset(cache)
    THEN LET d == detect_hwaccel(env.render_device, env.listing, env.qsv_test, env.vaapi_test)
         IN  [ret |-> d.hwaccel, cache |-> d.hwaccel, spawned |-> d.spawned,
              detected |-> TRUE]
    ELSE [ret |-> cache, cache |-> cache, spawned |-> <<>>, detected |-> FALSE]

\* the history entry of one call: env holds the environment the detection
\* looked at, and is empty for a call served from the cache
HwCall(g, env) ==
    [ret |-> g.ret, detected |-> g.detected,
     env |-> IF g.detected THEN {env} ELSE {}]

\* what detect_hwaccel can meet on the host
HwEnvs ==
    [render_device : BOOLEAN, listing : EncoderRuns,
     qsv_test : TestOutcomes, vaapi_test : TestOutcomes]

\* "hwaccel = get_hwaccel()" of the command
cli_get_hwaccel ==
    /\ cli_pc = "hwaccel"
    /\ \E env \in HwEnvs :
         LET g == get_hwaccel(hwaccel_cache, env)
         IN  /\ hwaccel_cache' = g.cache
             /\ cli_work' = [cli_work EXCEPT !.hwaccel = g.ret]
             /\ procs' = procs \o g.spawned
             /\ hw_calls' = Append(hw_calls, HwCall(g, env))
    /\ cli_pc' = "find"
    /\ UNCHANGED <<cli_in, cli_exit>>
    /\ UNCHANGED <<tlCtl, disk, created>>
    /\ UNCHANGED <<calVars, flVars, exVars, gridVars, runVars>>

\* generate_file_lists and the count of what it found; the number of files
\* found for each camera of camera_list is the tree's
cli_find_files ==
    /\ cli_pc = "find"
    /\ \E file_lists \in [1..Len(cli_work.camera_list) -> 0..MaxCliFiles] :
         LET total_files == SumSeq(file_lists)
         IN  /\ cli_work' = [cli_work EXCEPT !.file_lists = file_lists]
             /\ IF total_files = 0
                THEN /\ cli_exit' = "1: No recording files found"
                     /\ cli_pc' = "exit"
                ELSE /\ cli_pc' = "create"
                     /\ UNCHANGED cli_exit
    /\ UNCHANGED <<cli_in, hwaccel_cache, hw_calls>>
    /\ UNCHANGED tlVars
    /\ UNCHANGED <<calVars, flVars, exVars, gridVars, runVars>>

GridTempDir == <<"grid_dir", 0, 0>>     \* mkdtemp(prefix="frigate_grid_")

\* the parameters of grid.create_grid_video
create_grid_video_params ==
    { "camera_files", "output_path", "cell_width", "cell_height", "preset",
      "progress_callback", "estimated_duration" }

\* the keyword arguments of the command's create_grid_video(...) call
GridCallKeywords ==
    { "camera_files", "output_path", "preset", "progress_callback",
      "estimated_duration", "hwaccel" }

\* the rest of the command: dry run, disk space check, then
\* create_timelapse for one camera or the grid steps for several.
\* create_timelapse is taken here as one step that probes the leading
\* files, runs ffmpeg and returns success or failure.
cli_create ==
    /\ cli_pc = "create"
    /\ \E space_ok \in BOOLEAN, outcome \in ProcOutcomes, encode_outcome \in ProcOutcomes :
         LET n == SumSeq(cli_work.file_lists)
         IN  IF cli_in.dry_run
             THEN /\ cli_exit' = "0: Dry run"
                  /\ UNCHANGED <<procs, created>>
             ELSE IF ~space_ok
             THEN /\ cli_exit' = "1: Insufficient disk space"
                  /\ UNCHANGED <<procs, created>>
             ELSE IF Len(cli_work.camera_list) = 1
             THEN /\ procs' = procs
                               \o [i \in 1..Min(SampleLimit, n) |->
                                      Proc("ffprobe", "none", 0, 1, "ok")]
                               \o <<Proc("ffmpeg", cli_work.hwaccel, 0, n, outcome)>>
                  /\ cli_exit' = IF outcome = "ok" THEN "0: Success"
                                  ELSE "1: Timelapse creation failed"
                  /\ UNCHANGED created
             ELSE IF ~(GridCallKeywords \subseteq create_grid_video_params)
             THEN \* the call binds a keyword create_grid_video() does not
                  \* have; the finally block removes temp_dir
                  /\ cli_exit' = "TypeError"
                  /\ created' = created \cup {GridTempDir}
                  /\ UNCHANGED procs
             ELSE \* step 1: the grid video; step 2: encode_timelapse of it
                  /\ created' = created \cup {GridTempDir}
                  /\ IF outcome # "ok"
                     THEN /\ procs' = Append(procs, Proc("grid", "none", 0,
                                                        Len(cli_work.camera_list), outcome))
                          /\ cli_exit' = "1: Grid creation failed"
                     ELSE /\ procs' = procs
                                   \o <<Proc("grid", "none", 0, Len(cli_work.camera_list), outcome),
                                        Proc("encode", cli_work.hwaccel, DefaultFps, 1,
                                             encode_outcome)>>
                          /\ cli_exit' = IF encode_outcome = "ok" THEN "0: Success"
                                          ELSE "1: Timelapse encoding failed"
    /\ cli_pc' = "exit"
    /\ UNCHANGED <<cli_in, cli_work, hwaccel_cache, hw_calls>>
    /\ UNCHANGED <<tlCtl, disk>>
    /\ UNCHANGED <<calVars, flVars, exVars, gridVars, runVars>>

InitCli ==
    /\ cli_pc = "idle"
    /\ cli_in = [cameras |-> <<>>]
    /\ cli_work = [camera_list |-> <<>>]
    /\ hwaccel_cache = "None"
    /\ cli_exit = "none"
    /\ hw_calls = <<>>
    /\ InitCalendarIdle
    /\ InitFileListIdle
    /\ InitTimelapseIdle
    /\ InitExtractIdle
    /\ InitGridIdle
    /\ InitRunsIdle

NextCli == timelapse_create \/ cli_get_hwaccel \/ cli_find_files \/ cli_create

SpecCli == InitCli /\ [][NextCli]_vars

----------------------------------------------------------------------------
(* Command properties *)

InputErrors ==
    { "1: Invalid duration", "1: No cameras specified", "1: No recording files found" }

\* C14: the input errors of a timelapse request (no recording file found,
\* malformed duration, empty camera list) are reported before any external
\* process is spawned, the hardware-capability probe included.
Claim_C14_InputErrorsBeforeAnySpawn ==
    cli_exit \in InputErrors => procs = <<>>

----------------------------------------------------------------------------
(* file_list.py and clip.py: any tree, generate_file_lists, clips *)

\* DAY_NAMES
DAY_NAMES ==
    { [name |-> <<109, 111, 110>>, n |-> 0],
      [name |-> <<109, 111, 110, 100, 97, 121>>, n |-> 0],
      [name |-> <<116, 117, 101>>, n |-> 1],
      [name |-> <<116, 117, 101, 115, 100, 97, 121>>, n |-> 1],
      [name |-> <<119, 101, 100>>, n |-> 2],
      [name |-> <<119, 101, 100, 110, 101, 115, 100, 97, 121>>, n |-> 2],
      [name |-> <<116, 104, 117>>, n |-> 3],
      [name |-> <<116, 104, 117, 114, 115, 100, 97, 121>>, n |-> 3],
      [name |-> <<102, 114, 105>>, n |-> 4],
      [name |-> <<102, 114, 105, 100, 97, 121>>, n |-> 4],
      [name |-> <<115, 97, 116>>, n |-> 5],
      [name |-> <<115, 97, 116, 117, 114, 100, 97, 121>>, n |-> 5],
      [name |-> <<115, 117, 110>>, n |-> 6],
      [name |-> <<115, 117, 110, 100, 97, 121>>, n |-> 6] }

\* parse_skip_days: names that are not day names are dropped
parse_skip_days(skip_days) ==
    { d.n : d \in { x \in DAY_NAMES :
                      \E i \in 1..Len(skip_days) : Strip(Lower(skip_days[i])) = x.name } }

\* parse_skip_hours: tokens that are not "<int>-<int>" with both hours in
\* 0..23 are dropped
RECURSIVE parse_skip_hours_from(_, _)
parse_skip_hours_from(skip_hours, i) ==
    IF i > Len(skip_hours) THEN <<>>
    ELSE LET range_str == skip_hours[i]
             parts     == Split(range_str, Dash)
             rest      == parse_skip_hours_from(skip_hours, i + 1)
         IN  IF \A k \in 1..Len(range_str) : range_str[k] # Dash THEN rest
             ELSE IF Len(parts) # 2 THEN rest
             ELSE IF ~IsInt(parts[1]) \/ ~IsInt(parts[2]) THEN rest
             ELSE IF IntOf(parts[1]) \in 0..23 /\ IntOf(parts[2]) \in 0..23
                  THEN <<HourRange(IntOf(parts[1]), IntOf(parts[2]))>> \o rest
             ELSE rest

parse_skip_hours(skip_hours) == parse_skip_hours_from(skip_hours, 1)

FileLists(t, tz, cameras, start, end, skip_days, skip_hours, keys) ==
    [c \in keys |->
        find_recording_files(t, tz, [camera |-> c, start |-> start, end |-> end,
                                     skip_days |-> parse_skip_days(skip_days),
                                     skip_hours |-> parse_skip_hours(skip_hours)])]

generate_file_lists_non_empty_only(t, tz, cameras, start, end, skip_days, skip_hours) ==
    LET all == FileLists(t, tz, cameras, start, end, skip_days, skip_hours,
                         { cameras[i] : i \in 1..Len(cameras) })
    IN  [c \in { k \in DOMAIN all : Len(all[k]) > 0 } |-> all[c]]

\* generate_file_lists: result[camera] = find_recording_files(...) for each
\* camera of the list
generate_file_lists(t, tz, cameras, start, end, skip_days, skip_hours) ==
    FileLists(t, tz, cameras, start, end, skip_days, skip_hours,
              { cameras[i] : i \in 1..Len(cameras) })

\* clip.find_overlapping_segments: the locator without calendar rules
find_overlapping_segments(t, tz, camera, start, end) ==
    find_recording_files(t, tz, [camera |-> camera, start |-> start, end |-> end,
                                 skip_days |-> {}, skip_hours |-> <<>>])

\* what can lie below recordings/: segment files of the fixed layout, hour
\* directories named "8", "24" and "ab", a regular file named "09" in a
\* date directory, and files named "0.00.mp4", "61.00.mp4", "00.00.txt"
AnyUniverse ==
    LET d5 == strftime_date(5)
        d6 == strftime_date(6)
    IN  { Entry(d5, Str2(8), "front", FileName(0, 0)),
          Entry(d5, Str2(8), "front", FileName(30, 0)),
          Entry(d5, Str2(8), "back", FileName(0, 0)),
          Entry(d6, Str2(16), "front", FileName(0, 0)),
          Entry(d5, <<56>>, "front", FileName(0, 0)),
          Entry(d5, <<50, 52>>, "front", FileName(0, 0)),
          Entry(d5, <<97, 98>>, "front", FileName(0, 0)),
          Entry(d5, Str2(9), NotADir, <<>>),
          Entry(d5, Str2(8), "front", <<48, Dot, 48, 48>> \o Mp4),
          Entry(d5, Str2(8), "front", <<54, 49, Dot, 48, 48>> \o Mp4),
          Entry(d5, Str2(8), "front", <<48, 48, Dot, 48, 48, Dot, 116, 120, 116>>) }

\* something is written below recordings/
WriteEntry ==
    /\ fl_pc = "walk"
    /\ Cardinality(tree) < MaxTree
    /\ \E e \in AnyUniverse \ tree : tree' = tree \cup {e}
    /\ recordings' = TRUE
    /\ UNCHANGED <<fl_tz, fl_pc, fl_in, fl_out>>
    /\ UNCHANGED <<calVars, tlVars, exVars, gridVars, cliVars, runVars>>

CameraLists ==
    { <<>>, <<"front">>, <<"front", "back">>, <<"back", "garage">>, <<"front", "front">> }

\* skip_days as given: none, or "Sat", " sun", "xyz"
SkipDayNames == { <<>>, << <<83, 97, 116>>, <<Space, 115, 117, 110>>, <<120, 121, 122>> >> }

\* skip_hours as given: none, "16-8", or "9-17", "25-3", "x", "22-6"
SkipHourNames ==
    { <<>>,
      << <<49, 54, Dash, 56>> >>,
      << <<57, Dash, 49, 55>>, <<50, 53, Dash, 51>>, <<120>>, <<50, 50, Dash, 54>> >> }

GenerateFileLists ==
    /\ fl_pc = "walk"
    /\ \E cameras \in CameraLists, end \in {DT(5, 8, 30, 0), DT(6, 16, 0, 0)},
          skip_days \in SkipDayNames, skip_hours \in SkipHourNames :
         LET start == DT(5, 8, 0, 0)
         IN  /\ fl_in' = [cameras |-> cameras, start |-> start, end |-> end,
                           skip_days |-> skip_days, skip_hours |-> skip_hours]
             /\ fl_out' = generate_file_lists(tree, fl_tz, cameras, start, end,
                                               skip_days, skip_hours)
    /\ fl_pc' = "lists"
    /\ UNCHANGED <<tree, fl_tz, recordings>>
    /\ UNCHANGED <<calVars, tlVars, exVars, gridVars, cliVars, runVars>>

ClipStarts == { DT(5, 8, 0, 0), DT(5, 8, 0, 5) }
ClipEnds   == { DT(5, 8, 0, 5), DT(5, 8, 30, 0), DT(6, 16, 0, 0) }

FindOverlappingSegments ==
    /\ fl_pc = "walk"
    /\ \E camera \in Cameras, start \in ClipStarts, end \in ClipEnds :
         /\ fl_in' = [camera |-> camera, start |-> start, end |-> end]
         /\ fl_out' = find_overlapping_segments(tree, fl_tz, camera, start, end)
    /\ fl_pc' = "clip"
    /\ UNCHANGED <<tree, fl_tz, recordings>>
    /\ UNCHANGED <<calVars, tlVars, exVars, gridVars, cliVars, runVars>>

InitRecordings ==
    /\ tree = {}
    /\ fl_tz \in TimeZones
    /\ fl_pc = "walk"
    /\ fl_in = [camera |-> "none"]
    /\ fl_out = <<>>
    /\ recordings \in BOOLEAN
    /\ InitCalendarIdle
    /\ InitTimelapseIdle
    /\ InitExtractIdle
    /\ InitGridIdle
    /\ InitCliIdle
    /\ InitRunsIdle

NextRecordings ==
    \/ WriteEntry
    \/ FindRecordingFiles
    \/ GenerateFileLists
    \/ FindOverlappingSegments

SpecRecordings == InitRecordings /\ [][NextRecordings]_vars

----------------------------------------------------------------------------
(* Properties over any tree *)

\* C17: generate_file_lists returns a mapping with exactly one entry per
\* requested camera; a camera without a subtree, and every camera when the
\* recordings directory is missing, maps to the empty list.
Thm_C17_OneEntryPerCamera ==
    fl_pc = "lists" =>
        /\ DOMAIN fl_out = { fl_in.cameras[i] : i \in 1..Len(fl_in.cameras) }
        /\ \A c \in DOMAIN fl_out :
             /\ (\A e \in tree : e.cam # c) => fl_out[c] = <<>>
             /\ ~recordings => fl_out[c] = <<>>
             /\ Range(fl_out[c]) \subseteq { e \in tree : e.cam = c }

\* two cameras asked for: one has a segment in the window, the other has
\* no subtree at all
Wit_C17_OneCameraMissing ==
    /\ fl_pc = "lists"
    /\ fl_in.cameras = <<"back", "garage">>
    /\ Len(fl_out["back"]) = 1
    /\ fl_out["garage"] = <<>>
    /\ \E e \in tree : e.cam = "front"

\* length of a recording segment in seconds
SegmentSeconds == 10

\* C18: find_overlapping_segments returns exactly the segments of the
\* camera whose recorded span [ts, ts + length) overlaps [start, end), the
\* segment still recording at start included.
Claim_C18_EveryOverlappingSegment ==
    fl_pc = "clip" =>
        Range(fl_out) =
            { e \in tree : /\ e.cam = fl_in.camera
                           /\ EntryTs(e) # None
                           /\ Secs(EntryTs(e)) < Secs(fl_in.end)
                           /\ Secs(EntryTs(e)) + SegmentSeconds > Secs(fl_in.start) }

\* recordings/YYYY-MM-DD/HH/<camera>/MM.SS.mp4 with HH in 00..23, MM and SS
\* in 00..59
ExactShape(e) ==
    /\ Len(e.hour) = 2 /\ IsInt(e.hour) /\ IntOf(e.hour) <= 23
    /\ e.cam # NotADir
    /\ FILENAME_PATTERN_match(e.file)
    /\ IntOf(SubSeq(e.file, 1, 2)) <= 59
    /\ IntOf(SubSeq(e.file, 4, 5)) <= 59

\* C19: find_recording_files returns no entry that is not of the exact
\* zero-padded shape: not below an hour directory whose name is not a
\* two-digit 00-23 string, not a non-directory at hour level, not a file
\* that is not MM.SS.mp4 with valid minute and second.
Claim_C19_OnlyExactShape ==
    fl_pc = "done" => \A i \in 1..Len(fl_out) : ExactShape(fl_out[i])

----------------------------------------------------------------------------
(* grid.py: create_grid_video *)

\* the NamedTemporaryFile(suffix="_{camera}.txt", delete=False) of the
\* i-th camera
GridManifest(i) == <<"grid_manifest", i, 0>>

\* create_grid_video up to the loop over the cameras
create_grid_video ==
    /\ grid_pc = "idle"
    /\ \E camera_files \in SeqsUpTo(0..MaxGridFiles, MaxCameras) :
         /\ grid_in' = camera_files
         /\ IF Len(camera_files) = 0
            THEN \* "No camera files provided"
                 /\ grid_ret' = "False"
                 /\ grid_pc' = "done"
            ELSE /\ grid_pc' = "manifests"
                 /\ UNCHANGED grid_ret
    /\ UNCHANGED grid_concat_files
    /\ UNCHANGED tlVars
    /\ UNCHANGED <<calVars, flVars, exVars, cliVars, runVars>>

\* one turn of "for camera in camera_names": return False for a camera
\* without files, else write its concat manifest
grid_write_manifest ==
    /\ grid_pc = "manifests"
    /\ LET i == Len(grid_concat_files) + 1
       IN  IF grid_in[i] = 0
           THEN \* "No files for camera"
                /\ grid_ret' = "False"
                /\ grid_pc' = "done"
                /\ UNCHANGED <<grid_concat_files, disk, created>>
           ELSE /\ grid_concat_files' = Append(grid_concat_files, GridManifest(i))
                /\ disk' = disk \cup {GridManifest(i)}
                /\ created' = created \cup {GridManifest(i)}
                /\ grid_pc' = IF i = Len(grid_in) THEN "encode" ELSE "manifests"
                /\ UNCHANGED grid_ret
    /\ UNCHANGED grid_in
    /\ UNCHANGED <<tlCtl, procs>>
    /\ UNCHANGED <<calVars, flVars, exVars, cliVars, runVars>>

\* the try block: the xstack encoder runs over the manifests; the finally
\* block unlinks every manifest of concat_files
grid_encode ==
    /\ grid_pc = "encode"
    /\ \E outcome \in ProcOutcomes :
         /\ procs' = Append(procs, Proc("grid", "none", 0, Len(grid_concat_files), outcome))
         /\ created' = created \cup Wrote(outcome, OutputFile)
         /\ disk' = (disk \cup Wrote(outcome, OutputFile))
                        \ { grid_concat_files[j] : j \in 1..Len(grid_concat_files) }
         /\ grid_ret' = IF outcome = "ok" THEN "True" ELSE "False"
    /\ grid_pc' = "done"
    /\ UNCHANGED <<grid_in, grid_concat_files>>
    /\ UNCHANGED tlCtl
    /\ UNCHANGED <<calVars, flVars, exVars, cliVars, runVars>>

InitGrid ==
    /\ grid_pc = "idle"
    /\ grid_in = <<>>
    /\ grid_concat_files = <<>>
    /\ grid_ret = "none"
    /\ InitCalendarIdle
    /\ InitFileListIdle
    /\ InitTimelapseIdle
    /\ InitExtractIdle
    /\ InitCliIdle
    /\ InitRunsIdle

NextGrid == create_grid_video \/ grid_write_manifest \/ grid_encode

SpecGrid == InitGrid /\ [][NextGrid]_vars

----------------------------------------------------------------------------
(* Grid properties *)

\* C20: when create_grid_video has returned - after success, after an
\* encoder failure, after the early return for a camera without files -
\* none of the per-camera concat manifests it wrote is left on disk.
Claim_C20_NoManifestLeft ==
    grid_pc = "done" => \A a \in disk : a[1] # "grid_manifest"

\* exits of the command before it starts creating anything
EarlyExits ==
    InputErrors \cup { "1: Could not auto-detect Frigate instance",
                      "1: Instance path does not exist",
                      "0: Dry run", "1: Insufficient disk space" }

GridIdx == { i \in 1..Len(procs) : procs[i].kind = "grid" }

\* C21: for a request naming two or more cameras the command runs the grid
\* composition and then the timelapse encode of the grid video, each once
\* and in that order, the encode only after the grid step succeeded, and
\* reports success when both succeed.
Claim_C21_GridThenEncodeOnce ==
    (cli_pc = "exit" /\ Len(cli_work.camera_list) >= 2 /\ cli_exit \notin EarlyExits) =>
        /\ Cardinality(GridIdx) = 1
        /\ \A g \in GridIdx :
             IF procs[g].ok
             THEN /\ Cardinality(EncodeIdx) = 1
                  /\ \A e \in EncodeIdx : g < e
                                           /\ (procs[e].ok => cli_exit = "0: Success")
             ELSE EncodeIdx = {}
        /\ cli_exit \in { "0: Success", "1: Grid creation failed",
                           "1: Timelapse encoding failed" }

\* C28: when more frames were extracted than needed, the frames kept start
\* with the first extracted frame and end within one stride of the last
\* extracted frame.
Claim_C28_DownsampleSpansSequence ==
    (tl_pc = "encode_frames" /\ Len(tl_work.extracted) > tl_work.frames_needed) =>
        LET extracted == tl_work.extracted
            kept      == tl_work.frame_files
            stride    == Max(1, Len(extracted) \div tl_work.frames_needed)
            last      == CHOOSE j \in 1..Len(extracted) : extracted[j] = kept[Len(kept)]
        IN  /\ kept[1] = extracted[1]
            /\ Len(extracted) - last <= stride

\* C29: whichever strategy create_timelapse selects, the final encoder runs
\* at the caller's output_fps.
Claim_C29_EncoderRunsAtOutputFps ==
    tl_pc \in {"encode_frames", "encode_timelapse", "done"} =>
        \A i \in EncodeIdx : procs[i].fps = tl_in.fps

\* the frames of the tasks that delivered some, by task index and then by
\* frame number
RECURSIVE FramesInInputOrder(_)
FramesInInputOrder(m) ==
    IF m = 0 THEN <<>>
    ELSE FramesInInputOrder(m - 1)
         \o (IF \E r \in ExResults : r.index = m - 1 /\ r.outcome = "frames"
             THEN [k \in 1..FramesPerTask(ex_in.extract_all) |-> Frame(m - 1, k)]
             ELSE <<>>)

\* C27: extract_keyframes_parallel returns the frames ordered by source
\* file index and then by frame index within the file, whatever the order
\* in which the tasks completed.
Thm_C27_FramesInInputOrder ==
    ex_pc = "returned" =>
        /\ ex_out = FramesInInputOrder(ex_in.m)
        /\ \A a, b \in 1..Len(ex_out) :
             a < b => \/ ex_out[a][2] < ex_out[b][2]
                      \/ ex_out[a][2] = ex_out[b][2] /\ ex_out[a][3] < ex_out[b][3]

\* three files whose tasks completed in the reverse of the input order,
\* each delivering several frames
Wit_C27_ReverseCompletion ==
    /\ ex_pc = "returned"
    /\ ex_in.m = 3
    /\ ex_in.extract_all
    /\ \A j \in 1..3 : ex_completed[j].index = 3 - j /\ ex_completed[j].outcome = "frames"
    /\ Len(ex_out) = 3 * KeyframesPerFile

----------------------------------------------------------------------------
\* One process calling get_hwaccel() again and again (timelapse.py); the
\* host may look different at every call.

MaxCalls == 3

get_hwaccel_call ==
    /\ cli_pc = "calls"
    /\ Len(hw_calls) < MaxCalls
    /\ \E env \in HwEnvs :
         LET g == get_hwaccel(hwaccel_cache, env)
         IN  /\ hwaccel_cache' = g.cache
             /\ procs' = procs \o g.spawned
             /\ hw_calls' = Append(hw_calls, HwCall(g, env))
    /\ UNCHANGED <<cli_pc, cli_in, cli_work, cli_exit>>
    /\ UNCHANGED <<tlCtl, disk, created>>
    /\ UNCHANGED <<calVars, flVars, exVars, gridVars, runVars>>

InitHwaccel ==
    /\ InitCalendarIdle
    /\ InitFileListIdle
    /\ InitTimelapseIdle
    /\ InitExtractIdle
    /\ InitGridIdle
    /\ InitRunsIdle
    /\ cli_pc = "calls"
    /\ cli_in = [cameras |-> <<>>]
    /\ cli_work = [camera_list |-> <<>>]
    /\ hwaccel_cache = "None"
    /\ cli_exit = "none"
    /\ hw_calls = <<>>

NextHwaccel == get_hwaccel_call

SpecHwaccel == InitHwaccel /\ [][NextHwaccel]_vars

Detections == { i \in 1..Len(hw_calls) : hw_calls[i].detected }

\* C22: a detection returns QSV exactly when the render device exists,
\* h264_qsv is advertised and the QSV test encode succeeds; otherwise VAAPI
\* exactly when the device exists, h264_vaapi is advertised and the VAAPI
\* test encode succeeds (also when the QSV test did not succeed); otherwise
\* NONE.
Claim_C22_DetectByTestEncode ==
    \A i \in Detections : \A e \in hw_calls[i].env :
        LET qsv   == e.render_device /\ "h264_qsv" \in e.listing.encoders
                     /\ e.qsv_test = "ok"
            vaapi == e.render_device /\ "h264_vaapi" \in e.listing.encoders
                     /\ e.vaapi_test = "ok"
        IN  hw_calls[i].ret = IF qsv THEN "qsv" ELSE IF vaapi THEN "vaapi" ELSE "none"

\* C30: in one process only the first get_hwaccel call runs detect_hwaccel,
\* every call returns what that detection found, NONE included, and the
\* cache keeps that value.
Thm_C30_DetectedOnceAndKept ==
    /\ hw_calls = <<>> => hwaccel_cache = "None"
    /\ \A i \in 1..Len(hw_calls) :
         /\ hw_calls[i].detected <=> i = 1
         /\ hw_calls[i].ret = hw_calls[1].ret
         /\ hwaccel_cache = hw_calls[1].ret

\* three calls in a process whose detection found no acceleration
Wit_C30_NoneIsCachedToo ==
    /\ Len(hw_calls) = 3
    /\ hw_calls[1].ret = "none"
    /\ hw_calls[3].ret = "none"
    /\ ~hw_calls[3].detected

----------------------------------------------------------------------------
\* parse_file_timestamp (file_list.py) called on names formatted from a
\* calendar tuple, and on arbitrary names.

Str4(n) == <<48 + (n \div 1000), 48 + ((n \div 100) % 10)>> \o Str2(n % 100)

\* strftime("%Y-%m-%d"), "%H" and "%M.%S.mp4" of a datetime
FormatDateDir(t) == Str4(t.year) \o <<Dash>> \o Str2(t.month) \o <<Dash>> \o Str2(t.day)
FormatHourDir(t) == Str2(t.hour)
FormatFileName(t) == Str2(t.minute) \o <<Dot>> \o Str2(t.second) \o Mp4

ValidTuples ==
    { t \in [year : {2024, 2025}, month : {1, 2, 12}, day : {1, 28, 29, 31},
             hour : {0, 7, 23}, minute : {0, 59}, second : {0, 59}] :
        ValidDateTime(t.year, t.month, t.day, t.hour, t.minute, t.second) }

\* names a date directory can have
DateDirNames ==
    { <<50, 48, 50, 53, 45, 49, 50, 45, 48, 49>>,    \* "2025-12-01"
      <<50, 48, 50, 53, 45, 48, 50, 45, 50, 57>>,    \* "2025-02-29"
      <<50, 48, 50, 52, 45, 48, 50, 45, 50, 57>>,    \* "2024-02-29"
      <<50, 48, 50, 53, 45, 49, 51, 45, 48, 49>>,    \* "2025-13-01"
      <<50, 48, 50, 53, 45, 49, 50>>,    \* "2025-12"
      <<50, 48, 50, 53, 45, 49, 50, 45, 48, 49, 45, 48, 49>>,    \* "2025-12-01-01"
      <<50, 48, 50, 53, 45, 97, 98, 45, 48, 49>>,    \* "2025-ab-01"
      <<>>,    \* ""
      <<50, 48, 50, 53, 45, 50, 45, 57>>,    \* "2025-2-9"
      <<50, 48, 50, 53, 45, 49, 50, 45, 50, 49, 52, 55, 52, 56, 51, 54, 52, 56>>,    \* "2025-12-2147483648"
      <<50, 49, 52, 55, 52, 56, 51, 54, 52, 56, 45, 49, 50, 45, 48, 49>>,    \* "2147483648-12-01"
      <<48, 45, 49, 50, 45, 48, 49>>,    \* "0-12-01"
      <<50, 48, 50, 53, 45, 45, 49, 50, 45, 48, 49>> }    \* "2025--12-01"

\* names an hour directory can have
HourDirNames ==
    { <<49, 52>>,    \* "14"
      <<50, 52>>,    \* "24"
      <<97, 98>>,    \* "ab"
      <<>>,    \* ""
      <<32, 43, 49, 95, 52, 32>>,    \* " +1_4 "
      <<45, 49>>,    \* "-1"
      <<50, 49, 52, 55, 52, 56, 51, 54, 52, 55>>,    \* "2147483647"
      <<50, 49, 52, 55, 52, 56, 51, 54, 52, 56>>,    \* "2147483648"
      <<55>> }    \* "7"

\* names a file can have
SegmentFileNames ==
    { <<51, 48, 46, 48, 48, 46, 109, 112, 52>>,    \* "30.00.mp4"
      <<51, 48, 46, 48, 48, 46, 109, 112, 52, 10>>,    \* "30.00.mp4\n"
      <<48, 46, 48, 48, 46, 109, 112, 52>>,    \* "0.00.mp4"
      <<54, 49, 46, 48, 48, 46, 109, 112, 52>>,    \* "61.00.mp4"
      <<48, 48, 46, 54, 48, 46, 109, 112, 52>>,    \* "00.60.mp4"
      <<48, 48, 46, 48, 48, 46, 116, 120, 116>>,    \* "00.00.txt"
      <<51, 48, 46, 48, 48, 46, 109, 112, 52, 120>>,    \* "30.00.mp4x"
      <<51, 97, 46, 48, 48, 46, 109, 112, 52>>,    \* "3a.00.mp4"
      <<51, 48, 45, 48, 48, 46, 109, 112, 52>> }    \* "30-00.mp4"

ParseFormatted ==
    /\ cal_op = "parse_idle"
    /\ \E t \in ValidTuples :
         /\ cal_in' = [date_dir |-> FormatDateDir(t), hour_dir |-> FormatHourDir(t),
                       filename |-> FormatFileName(t), from |-> {t}]
         /\ cal_out' = parse_file_datetime(FormatDateDir(t), FormatHourDir(t),
                                           FormatFileName(t))
    /\ cal_op' = "parse"
    /\ UNCHANGED <<flVars, tlVars, exVars, gridVars, cliVars, runVars>>

ParseNames ==
    /\ cal_op = "parse_idle"
    /\ \E d \in DateDirNames, h \in HourDirNames, f \in SegmentFileNames :
         /\ cal_in' = [date_dir |-> d, hour_dir |-> h, filename |-> f, from |-> {}]
         /\ cal_out' = parse_file_datetime(d, h, f)
    /\ cal_op' = "parse"
    /\ UNCHANGED <<flVars, tlVars, exVars, gridVars, cliVars, runVars>>

InitParse ==
    /\ cal_op = "parse_idle"
    /\ cal_in = [hour |-> 0]
    /\ cal_out = FALSE
    /\ InitFileListIdle
    /\ InitTimelapseIdle
    /\ InitExtractIdle
    /\ InitGridIdle
    /\ InitCliIdle
    /\ InitRunsIdle

NextParse == ParseFormatted \/ ParseNames

SpecParse == InitParse /\ [][NextParse]_vars

\* the file name is two digits, a dot, two digits and ".mp4", nothing else
IsMMSSmp4(f) ==
    /\ Len(f) = 9
    /\ IsDigit(f[1]) /\ IsDigit(f[2]) /\ f[3] = Dot
    /\ IsDigit(f[4]) /\ IsDigit(f[5]) /\ SubSeq(f, 6, 9) = Mp4

\* the date name is three integers joined by dashes and the hour name an
\* integer, and they make a calendar date and an hour of the day
IsCalendarValue(date_dir, hour_dir) ==
    LET parts == Split(date_dir, Dash)
        hour  == int_literal(hour_dir)
    IN  /\ Len(parts) = 3
        /\ hour.ok /\ ~ExceedsCInt(hour)
        /\ \A i \in 1..Len(parts) :
             int_literal(parts[i]).ok /\ ~ExceedsCInt(int_literal(parts[i]))
        /\ ValidDateTime(IntValue(int_literal(parts[1])), IntValue(int_literal(parts[2])),
                         IntValue(int_literal(parts[3])), IntValue(hour), 0, 0)

\* C23: parse_file_timestamp of the names formatted from a valid tuple
\* returns that tuple; for a file name that is not MM.SS.mp4, or a date or
\* hour name that is no calendar value, it returns None; it never raises.
Claim_C23_ParseRoundTripOrNone ==
    cal_op = "parse" =>
        /\ \A t \in cal_in.from : cal_out = t
        /\ (~IsMMSSmp4(cal_in.filename)
             \/ ~IsCalendarValue(cal_in.date_dir, cal_in.hour_dir)) => cal_out = None
        /\ cal_out # OverflowError

----------------------------------------------------------------------------
\* The concat manifest written by _concat_batch (timelapse.py); the same two
\* lines of code write it in encode_frames_to_video, _bsf_pass1_concat,
\* concat_clip and create_grid_video.

Quote == 39         \* "'"
Backslash == 92     \* "\"

MaxPathLen == 2
MaxManifestLines == 2

\* str(abs_path).replace("'", "'\\''")
RECURSIVE Escape(_)
Escape(path) ==
    IF Len(path) = 0 THEN <<>>
    ELSE (IF path[1] = Quote THEN <<Quote, Backslash, Quote, Quote>> ELSE <<path[1]>>)
         \o Escape(Tail(path))

ManifestLine_unescaped(path) ==
    <<102, 105, 108, 101, Space, Quote>> \o path \o <<Quote, Newline>>

\* f"file '{escaped}'\n"
ManifestLine(path) ==
    <<102, 105, 108, 101, Space, Quote>> \o Escape(path) \o <<Quote, Newline>>

Paths == SeqsUpTo({97, Quote, Backslash}, MaxPathLen)

\* one turn of "for file_path in files: f.write(...)"
write_manifest_line ==
    /\ cal_op = "manifest"
    /\ Len(cal_in) < MaxManifestLines
    /\ \E path \in Paths :
         /\ cal_in' = Append(cal_in, path)
         /\ cal_out' = cal_out \o ManifestLine(path)
    /\ UNCHANGED cal_op
    /\ UNCHANGED <<flVars, tlVars, exVars, gridVars, cliVars, runVars>>

InitManifest ==
    /\ cal_op = "manifest"
    /\ cal_in = <<>>
    /\ cal_out = <<>>
    /\ InitFileListIdle
    /\ InitTimelapseIdle
    /\ InitExtractIdle
    /\ InitGridIdle
    /\ InitCliIdle
    /\ InitRunsIdle

NextManifest == write_manifest_line

SpecManifest == InitManifest /\ [][NextManifest]_vars

\* the shell's quoting rule: between single quotes every character stands
\* for itself; outside them a backslash makes the next character literal.
\* A word that ends inside quotes or on a backslash yields no path (<<0>>).
RECURSIVE Unquote(_, _)
Unquote(word, quoted) ==
    IF Len(word) = 0 THEN (IF quoted THEN <<0>> ELSE <<>>)
    ELSE IF quoted
    THEN IF word[1] = Quote THEN Unquote(Tail(word), FALSE)
         ELSE <<word[1]>> \o Unquote(Tail(word), TRUE)
    ELSE IF word[1] = Quote THEN Unquote(Tail(word), TRUE)
    ELSE IF word[1] = Backslash
    THEN IF Len(word) = 1 THEN <<0>>
         ELSE <<word[2]>> \o Unquote(SubSeq(word, 3, Len(word)), FALSE)
    ELSE <<word[1]>> \o Unquote(Tail(word), FALSE)

\* the lines of a text, each without its newline
RECURSIVE Lines(_)
Lines(text) ==
    IF Len(text) = 0 THEN <<>>
    ELSE LET i == CHOOSE k \in 1..(Len(text) + 1) :
                      /\ (k <= Len(text) => text[k] = Newline)
                      /\ \A j \in 1..(k - 1) : text[j] # Newline
         IN  <<SubSeq(text, 1, i - 1)>> \o Lines(SubSeq(text, i + 1, Len(text)))

\* the path a manifest line names
PathOfLine(line) ==
    IF Len(line) >= 5 /\ SubSeq(line, 1, 5) = <<102, 105, 108, 101, Space>>
    THEN Unquote(SubSeq(line, 6, Len(line)), FALSE)
    ELSE <<0>>

----------------------------------------------------------------------------
\* concat_files (timelapse.py) called with a batch_size of the caller's
\* choice; create_timelapse calls it with the default.

BatchSizes == {2, 3, BatchSize}

\* total_batches = (total_files + batch_size - 1) // batch_size
total_batches(total_files, batch_size) == (total_files + batch_size - 1) \div batch_size

\* concat_files up to the first batch
concat_files ==
    /\ tl_pc = "concat_files"
    /\ \E n \in 0..MaxInputs, batch_size \in BatchSizes :
         /\ tl_in' = [n |-> n, batch_size |-> batch_size]
         /\ IF n = 0
            THEN \* "No input files provided"
                 /\ tl_ret' = "False"
                 /\ tl_pc' = "returned"
                 /\ UNCHANGED <<disk, created>>
            ELSE /\ disk' = disk \cup {ConcatDir}
                 /\ created' = created \cup {ConcatDir}
                 /\ tl_pc' = "batch"
                 /\ UNCHANGED tl_ret
    /\ tl_work' = [batch_i |-> 0, intermediates |-> <<>>]
    /\ UNCHANGED <<tl_sel, tl_hw, procs, ran>>
    /\ UNCHANGED <<calVars, flVars, exVars, gridVars, cliVars, runVars>>

\* one turn of "for i in range(total_batches)"
concat_files_batch ==
    /\ tl_pc = "batch"
    /\ \E outcome \in ProcOutcomes :
         LET i     == tl_work.batch_i
             batch == Min((i + 1) * tl_in.batch_size, tl_in.n) - i * tl_in.batch_size
             made  == {Manifest} \cup Wrote(outcome, Intermediate(i))
             \* finally of _concat_batch
             d1    == unlink(disk \cup made, Manifest)
         IN  /\ procs' = Append(procs, Proc("concat", "none", 0, batch, outcome))
             /\ created' = created \cup made
             /\ IF BatchFailed(outcome)
                THEN /\ tl_ret' = "False"
                     /\ tl_pc' = "returned"
                     /\ disk' = rmtree(d1, ConcatDir)
                     /\ UNCHANGED tl_work
                ELSE /\ tl_work' = [tl_work EXCEPT
                                      !.intermediates = Append(@, i),
                                      !.batch_i = i + 1]
                     /\ tl_pc' = IF i + 1 < total_batches(tl_in.n, tl_in.batch_size)
                                 THEN "batch" ELSE "final"
                     /\ disk' = d1
                     /\ UNCHANGED tl_ret
    /\ UNCHANGED <<tl_in, tl_sel, tl_hw, ran>>
    /\ UNCHANGED <<calVars, flVars, exVars, gridVars, cliVars, runVars>>

\* "_concat_batch(intermediate_files, output_path)" and the return
concat_files_final ==
    /\ tl_pc = "final"
    /\ \E outcome \in ProcOutcomes :
         LET made == {Manifest} \cup Wrote(outcome, OutputFile)
         IN  /\ procs' = Append(procs, Proc("concat", "none", 0,
                                            Len(tl_work.intermediates), outcome))
             /\ created' = created \cup made
             /\ disk' = rmtree(unlink(disk \cup made, Manifest), ConcatDir)
             /\ tl_ret' = IF outcome = "ok" THEN "True" ELSE "False"
    /\ tl_pc' = "returned"
    /\ UNCHANGED <<tl_in, tl_sel, tl_hw, tl_work, ran>>
    /\ UNCHANGED <<calVars, flVars, exVars, gridVars, cliVars, runVars>>

InitConcat ==
    /\ tl_pc = "concat_files"
    /\ tl_in = [n |-> 0]
    /\ tl_sel = [use_frames |-> FALSE]
    /\ tl_hw = "none"
    /\ tl_work = [depth |-> 0]
    /\ tl_ret = "none"
    /\ disk = {}
    /\ created = {}
    /\ procs = <<>>
    /\ ran = {}
    /\ InitCalendarIdle
    /\ InitFileListIdle
    /\ InitExtractIdle
    /\ InitGridIdle
    /\ InitCliIdle
    /\ InitRunsIdle

NextConcat == concat_files \/ concat_files_batch \/ concat_files_final

SpecConcat == InitConcat /\ [][NextConcat]_vars

\* C25: no concat invocation of concat_files is handed more than batch_size
\* inputs, the one over the intermediates included.
Claim_C25_AtMostBatchSizeInputs ==
    tl_pc \in {"batch", "final", "returned"} =>
        \A i \in 1..Len(procs) :
            procs[i].kind = "concat" => procs[i].inputs <= tl_in.batch_size

----------------------------------------------------------------------------
\* Several create_timelapse runs at the same time, all writing into one
\* output directory (timelapse.py).  Only the temporaries are followed.

MaxRuns == 2

Runs == 1..MaxRuns

Stems == {"a", "b"}

\* temp_file = output_path.parent / f".{output_path.stem}_concat.mp4"
ConcatTempOf(stem) == [kind |-> "_concat.mp4", stem |-> stem, uniq |-> 0]

\* concat_file = output_path.parent / f".{output_path.stem}_frames.txt"
FrameListOf(stem) == [kind |-> "_frames.txt", stem |-> stem, uniq |-> 0]

\* tempfile.mkdtemp(prefix="frigate_concat_") of run r: a fresh name
ConcatDirOf(r) == [kind |-> "frigate_concat_", stem |-> "", uniq |-> r]

\* tempfile.mkdtemp(prefix="frigate_frames_") of run r: a fresh name
FramesDirOf(r) == [kind |-> "frigate_frames_", stem |-> "", uniq |-> r]

\* the file system after run r wrote, or removed, the file f
WriteBy(fs, r, f) == {e \in fs : e.name # f} \cup {[name |-> f, by |-> r]}
Remove(fs, f) == {e \in fs : e.name # f}

\* run r reads, writes or deletes f: noted when another run wrote f
Touch(r, op, f) ==
    { [run |-> r, op |-> op, name |-> f, of |-> e.by] :
        e \in {x \in cc_fs : x.name = f /\ x.by # r} }

RunUnchanged == UNCHANGED <<calVars, flVars, tlVars, exVars, gridVars, cliVars>>

\* create_timelapse up to the choice of the strategy
run_create_timelapse(r) ==
    /\ cc_pc[r] = "idle"
    /\ \E stem \in Stems, use_frames \in BOOLEAN, keep \in BOOLEAN :
         /\ cc_in' = [cc_in EXCEPT ![r] = [stem |-> stem, use_frames |-> use_frames,
                                           keep_temp |-> keep]]
         /\ cc_pc' = [cc_pc EXCEPT ![r] = IF use_frames THEN "frames" ELSE "concat"]
    /\ UNCHANGED <<cc_fs, cc_touched>>
    /\ RunUnchanged

\* _create_timelapse_concat, step 1: concat_files(input_files, temp_file)
\* works in its own directory and writes temp_file
run_concat_files(r) ==
    /\ cc_pc[r] = "concat"
    /\ \E ok \in BOOLEAN :
         LET temp_file == ConcatTempOf(cc_in[r].stem)
         IN  /\ cc_touched' = cc_touched \cup Touch(r, "write", temp_file)
             /\ cc_fs' = WriteBy(cc_fs, r, temp_file)
             /\ cc_pc' = [cc_pc EXCEPT ![r] = IF ok THEN "encode" ELSE "concat_finally"]
    /\ UNCHANGED cc_in
    /\ RunUnchanged

\* step 2: encode_timelapse(temp_file, output_path, ...)
run_encode_timelapse(r) ==
    /\ cc_pc[r] = "encode"
    /\ cc_touched' = cc_touched \cup Touch(r, "read", ConcatTempOf(cc_in[r].stem))
    /\ cc_pc' = [cc_pc EXCEPT ![r] = "concat_finally"]
    /\ UNCHANGED <<cc_in, cc_fs>>
    /\ RunUnchanged

\* finally: "if not keep_temp: temp_file.unlink(missing_ok=True)"
run_concat_finally(r) ==
    /\ cc_pc[r] = "concat_finally"
    /\ LET temp_file == ConcatTempOf(cc_in[r].stem)
       IN  IF cc_in[r].keep_temp
           THEN UNCHANGED <<cc_fs, cc_touched>>
           ELSE /\ cc_touched' = cc_touched \cup Touch(r, "delete", temp_file)
                /\ cc_fs' = Remove(cc_fs, temp_file)
    /\ cc_pc' = [cc_pc EXCEPT ![r] = "done"]
    /\ UNCHANGED cc_in
    /\ RunUnchanged

\* _create_timelapse_frames: mkdtemp and the extraction into it
run_extract_frames(r) ==
    /\ cc_pc[r] = "frames"
    /\ \E ok \in BOOLEAN :
         /\ cc_touched' = cc_touched \cup Touch(r, "write", FramesDirOf(r))
         /\ cc_fs' = WriteBy(cc_fs, r, FramesDirOf(r))
         /\ cc_pc' = [cc_pc EXCEPT ![r] = IF ok THEN "frame_list" ELSE "frames_finally"]
    /\ UNCHANGED cc_in
    /\ RunUnchanged

\* encode_frames_to_video: open(concat_file, "w") and the writes
run_write_frame_list(r) ==
    /\ cc_pc[r] = "frame_list"
    /\ LET concat_file == FrameListOf(cc_in[r].stem)
       IN  /\ cc_touched' = cc_touched \cup Touch(r, "write", concat_file)
           /\ cc_fs' = WriteBy(cc_fs, r, concat_file)
    /\ cc_pc' = [cc_pc EXCEPT ![r] = "encode_frames"]
    /\ UNCHANGED cc_in
    /\ RunUnchanged

\* encode_frames_to_video: ffmpeg reads the list; finally unlinks it
run_encode_frames(r) ==
    /\ cc_pc[r] = "encode_frames"
    /\ LET concat_file == FrameListOf(cc_in[r].stem)
       IN  /\ cc_touched' = cc_touched \cup Touch(r, "read", concat_file)
                                       \cup Touch(r, "delete", concat_file)
           /\ cc_fs' = Remove(cc_fs, concat_file)
    /\ cc_pc' = [cc_pc EXCEPT ![r] = "frames_finally"]
    /\ UNCHANGED cc_in
    /\ RunUnchanged

\* finally: "if not keep_temp: shutil.rmtree(temp_dir, ignore_errors=True)"
run_frames_finally(r) ==
    /\ cc_pc[r] = "frames_finally"
    /\ IF cc_in[r].keep_temp
       THEN UNCHANGED <<cc_fs, cc_touched>>
       ELSE /\ cc_touched' = cc_touched \cup Touch(r, "delete", FramesDirOf(r))
            /\ cc_fs' = Remove(cc_fs, FramesDirOf(r))
    /\ cc_pc' = [cc_pc EXCEPT ![r] = "done"]
    /\ UNCHANGED cc_in
    /\ RunUnchanged

InitRuns ==
    /\ cc_pc = [r \in Runs |-> "idle"]
    /\ cc_in = [r \in Runs |-> [stem |-> "a", use_frames |-> FALSE, keep_temp |-> FALSE]]
    /\ cc_fs = {}
    /\ cc_touched = {}
    /\ InitCalendarIdle
    /\ InitFileListIdle
    /\ InitTimelapseIdle
    /\ InitExtractIdle
    /\ InitGridIdle
    /\ InitCliIdle

NextRuns ==
    \E r \in Runs :
        \/ run_create_timelapse(r)
        \/ run_concat_files(r)
        \/ run_encode_timelapse(r)
        \/ run_concat_finally(r)
        \/ run_extract_frames(r)
        \/ run_write_frame_list(r)
        \/ run_encode_frames(r)
        \/ run_frames_finally(r)

SpecRuns == InitRuns /\ [][NextRuns]_vars

\* C26: no run writes, reads or deletes a temporary that another run
\* wrote, whatever the output stems of the runs.
Claim_C26_RunsKeepToTheirOwnTemporaries == cc_touched = {}

====
